---- MODULE Spec2Model ----
(***************************************************************************)
(* Verification model of the botty session engine: the per-session state   *)
(* stack with its lifecycle hooks, the inline-message tracker, the session *)
(* registry and the broadcast goroutines.                                  *)
(*                                                                         *)
(* Eighteen specifications share the variables:                            *)
(*   Spec          one thread drives the operations of one session         *)
(*   SpecRace      the dispatch loop and a broadcast goroutine act on the  *)
(*                 same session, one Go statement per step                 *)
(*   SpecRegistry  concurrent callers of getOrCreateSession                *)
(*   SpecLock      the registry lock during load, store, session creation  *)
(*                 and shutdown, one Go statement per step                 *)
(*   SpecRun       the dispatch loop: admission, session resolution and    *)
(*                 the routing of messages, commands and callback queries  *)
(*   SpecWindow    the accept-window and its timers against the clock      *)
(*   SpecHooks     the stack operations with a state whose hooks read the  *)
(*                 stack and send an inline message                        *)
(*   SpecStore     storeSessions against an AppStateManager that may fail  *)
(*   SpecLoad      loadSessions followed by the serving of sessions        *)
(*   SpecShutdown  the function Run defers: store, then Shutdown of every  *)
(*                 session                                                 *)
(*   SpecDrain     SpecShutdown with a broadcast goroutine still running   *)
(*   SpecStart     New on a Config that may be incomplete, then SpecRun    *)
(*   SpecUsers     the stack operations with UsersList, whose hook may     *)
(*                 call Fail                                               *)
(*   SpecActivity  the time of the last user action through Handle, store  *)
(*                 and restart                                             *)
(*   SpecStop      Run returns when it is asked to, under a fair scheduler *)
(*   SpecWindowFair  SpecWindow under a fair scheduler                     *)
(*   SpecMock      the dispatch loop fed by MockBot.Send                   *)
(*   SpecMutex     the lock statements of all tasks, under a fair          *)
(*                 scheduler                                               *)
(***************************************************************************)
EXTENDS Integers, Sequences, FiniteSets, TLC

VARIABLES
    config,     \* Config.RootState: the state the root factory returns
    sessions,   \* Bot.sessions: ChatId -> reference into heap (Nil = absent)
    heap,       \* the session objects allocated so far (reference = index)
    mSessions,  \* Bot.mSessions: the thread holding the registry lock, or Free
    pc,         \* position of every thread
    local,      \* local variables of every thread
    calls,      \* lifecycle calls made by the operation that ran last
    lastOp,     \* the operation that ran last and its argument
    returned,   \* the <<chat, session>> pairs getOrCreateSession has returned
    panicked,   \* a goroutine panicked: the process is gone
    updates,    \* the updates the transport has delivered and Run has not received
    users,      \* UserManager: the ids of the registered users
    acceptNewUser, \* Bot.acceptNewUser
    timers,     \* the deadlines of the goroutines AcceptUsers has started
    now,        \* the clock
    shutdown,   \* Bot.shutdown has been closed
    trace,      \* what the loop did with the update it received last
    history,    \* the updates the loop has begun and finished to handle
    bot,        \* the Config handed to New and what New has made of it
    stored,     \* the StoreSessionState calls the AppStateManager has received
    mMessages,  \* session.mMessages of every chat's session: its holder, or Free
    spawned,    \* the goroutines ForeachSessionAsync has started, by chat
    stop        \* why Run has to return: the stream is closed, ctx is cancelled

\* the surroundings of the dispatch loop
runVars == <<updates, users, acceptNewUser, timers, now, shutdown, trace, history>>

\* the collaborators of the Bot
botVars == <<bot, stored, mMessages, spawned, stop>>

vars == <<config, sessions, heap, mSessions, pc, local, calls, lastOp,
          returned, panicked, runVars, botVars>>

----------------------------------------------------------------------------
(* Bounds *)

MaxDepth == 3       \* PushState is offered while the stack is below this depth
MaxDrop == 3        \* largest n offered to DropStates
MaxNegDrop == 1     \* DropStates is also offered n down to -MaxNegDrop
MaxMsgId == 0       \* the transport hands out message ids 0..MaxMsgId
NumChats == 2       \* chat ids 1..NumChats

ChatIds == 1..NumChats
MsgIds == 0..MaxMsgId
DropArgs == (0 - MaxNegDrop)..MaxDrop
Handlers == {"h1"}

Nil == 0
Free == "free"

----------------------------------------------------------------------------
(* State values.  A functionState is known to the engine by its hooks:     *)
(* onEnter is always set, onReturn and onLeave are optional.               *)

NilState == [name |-> "nil", onReturn |-> FALSE, onLeave |-> FALSE]
StateA == [name |-> "A", onReturn |-> FALSE, onLeave |-> TRUE]
StateB == [name |-> "B", onReturn |-> TRUE, onLeave |-> FALSE]
\* a state whose hooks use the session they are given: see RunHook
StateC == [name |-> "C", onReturn |-> FALSE, onLeave |-> TRUE]
\* UsersList: a functionState with activate and handleMessage only; activate
\* asks the UserManager for the users
UsersList == [name |-> "U", onReturn |-> FALSE, onLeave |-> FALSE]
RootStates == {[name |-> "R", onReturn |-> r, onLeave |-> l] : r \in BOOLEAN, l \in {FALSE}}

rootState == config

\* the states a handler may hand to PushState, ReplaceState, ResetToState
InputStates == {StateA, StateB, rootState}

NoBinding == [handler |-> "none", owner |-> "none"]

----------------------------------------------------------------------------
(* An operation runs on a context: the session it mutates, the lifecycle   *)
(* calls it has made so far, whether it has panicked, and whether           *)
(* UserManager.ListUsers returns an error while it runs.  After a panic    *)
(* the remaining statements of the operation do not run.                   *)

Ctx(s) == [s |-> s, calls |-> <<>>, panic |-> FALSE, listErr |-> FALSE]

\* the operation runs while ListUsers returns err
WithListUsers(c, err) == [c EXCEPT !.listErr = err]

Panic(c) == [c EXCEPT !.panic = TRUE]

Log(c, op, st) == [c EXCEPT !.calls = Append(@, [op |-> op, st |-> st.name])]

stateStack(s) == SubSeq(s.arr, 1, s.len)

\* lastUserAction is left at its zero value, written 0
NewSession(userId, chatId) ==
    [userId |-> userId, chatId |-> chatId,
     arr |-> <<>>, len |-> 0,
     currentInlineMessages |-> [m \in MsgIds |-> NoBinding],
     lastUserAction |-> 0]

\* session.CurrentState: nil on an empty stack
CurrentState(s) == IF s.len = 0 THEN NilState ELSE s.arr[s.len]

\* session.SendInlineMessage: the transport returned message id m
SendInlineMessage(c, m, h) ==
    IF c.panic THEN c
    ELSE [c EXCEPT !.s.currentInlineMessages[m] =
             [handler |-> h, owner |-> CurrentState(c.s).name]]

RECURSIVE PopState(_)

\* mutant: Fail reports the error and stays
Fail_Stay(c) == Log(c, "Fail", CurrentState(c.s))

\* session.Fail: log, SendMessage, PopState
Fail(c) == PopState(Log(c, "Fail", CurrentState(c.s)))

\* mutant: the activate hook of UsersList ignores the error of ListUsers
RunHook_NoFail(c, hook, st) ==
    LET c1 == Log(c, hook, st) IN
    IF st.name = "C"
    THEN SendInlineMessage(Log(c1, "CurrentState", CurrentState(c1.s)), 0, "h1")
    ELSE c1

\* fs.onEnter(bs), fs.onReturn(bs), fs.onLeave(bs): the hook runs on the
\* session.  The hooks of A, B and the root state leave the session alone;
\* every hook of C reads bs.CurrentState() and sends an inline message; the
\* activate hook of UsersList calls bs.Fail when ListUsers returns an error.
RunHook(c, hook, st) ==
    LET c1 == Log(c, hook, st) IN
    IF st.name = "C"
    THEN SendInlineMessage(Log(c1, "CurrentState", CurrentState(c1.s)), 0, "h1")
    ELSE IF st = UsersList /\ hook = "onEnter" /\ c.listErr THEN Fail(c1)
    ELSE c1

\* functionState.Enter: fs.onEnter(bs); a nil State panics on the call
Enter(c, st) ==
    IF c.panic THEN c
    ELSE IF st = NilState THEN Panic(c)
    ELSE RunHook(Log(c, "Enter", st), "onEnter", st)

\* mutant: Return always runs the enter hook
ReturnHook_AlwaysEnter(st) == "onEnter"

\* functionState.Return: onReturn when set, otherwise onEnter
ReturnHook(st) == IF st.onReturn THEN "onReturn" ELSE "onEnter"

\* mutant: returnTo is never invoked
Return_Skipped(c, st) == c

Return(c, st) ==
    IF c.panic THEN c
    ELSE IF st = NilState THEN Panic(c)
    ELSE RunHook(Log(c, "Return", st), ReturnHook(st), st)

\* functionState.Leave: onLeave only when set
Leave(c, st) ==
    IF c.panic THEN c
    ELSE IF st = NilState THEN Panic(c)
    ELSE IF st.onLeave THEN RunHook(Log(c, "Leave", st), "onLeave", st)
    ELSE Log(c, "Leave", st)

\* growth of the backing array when append finds it full
growslice(cap) == IF cap = 0 THEN 1 ELSE 2 * cap

\* mutant: the new state is put under the stack
appendState_Under(c, st) ==
    IF c.panic THEN c
    ELSE [c EXCEPT !.s.arr = <<st>> \o stateStack(c.s), !.s.len = c.s.len + 1]

\* bs.stateStack = append(bs.stateStack, state)
appendState(c, st) ==
    IF c.panic THEN c
    ELSE LET s == c.s IN
         IF s.len < Len(s.arr)
         THEN [c EXCEPT !.s.arr[s.len + 1] = st, !.s.len = s.len + 1]
         ELSE [c EXCEPT !.s.arr = stateStack(s) \o <<st>> \o
                                  [i \in 1..(growslice(Len(s.arr)) - s.len - 1) |-> NilState],
                        !.s.len = s.len + 1]

\* mutant: the slice keeps its length
sliceTo_Keep(c, k) == c

\* bs.stateStack = bs.stateStack[:k]: k must lie within the capacity
sliceTo(c, k) ==
    IF c.panic THEN c
    ELSE IF k < 0 \/ k > Len(c.s.arr) THEN Panic(c)
    ELSE [c EXCEPT !.s.len = k]

\* mutant: the stack is not dropped
setNil_Keep(c) == c

\* bs.stateStack = nil
setNil(c) ==
    IF c.panic THEN c ELSE [c EXCEPT !.s.arr = <<>>, !.s.len = 0]

\* mutant: the root state is not pushed on an empty stack
getOrPushCurrentState_NoRoot(c) == c

\* session.getOrPushCurrentState, the assignment part
getOrPushCurrentState(c) ==
    IF c.panic THEN c
    ELSE IF c.s.len = 0
         THEN [c EXCEPT !.s.arr = <<rootState>>, !.s.len = 1]
         ELSE c

\* mutant: the bindings are not reset
removeCurrentInlineMessages_Keep(c) == c

\* session.removeCurrentInlineMessages
removeCurrentInlineMessages(c) ==
    IF c.panic THEN c
    ELSE [c EXCEPT !.s.currentInlineMessages = [m \in MsgIds |-> NoBinding]]

\* mutant: PushState removes the inline messages after it has entered the
\* new state
PushState_ClearLast(c, st) ==
    LET c1 == IF c.s.len > 0 THEN Leave(c, CurrentState(c.s)) ELSE c
        c3 == appendState(c1, st)
    IN  removeCurrentInlineMessages(Enter(c3, st))

PushState(c, st) ==
    LET c1 == IF c.s.len > 0 THEN Leave(c, CurrentState(c.s)) ELSE c
        c2 == removeCurrentInlineMessages(c1)
        c3 == appendState(c2, st)
    IN  Enter(c3, st)

\* mutant: PopState forgets to remove the inline messages
PopState_KeepInline(c) ==
    IF c.s.len = 0 THEN c
    ELSE LET c1 == Leave(c, CurrentState(c.s))
             c3 == sliceTo(c1, c1.s.len - 1)
             c4 == getOrPushCurrentState(c3)
         IN  Return(c4, CurrentState(c4.s))

PopState(c) ==
    IF c.s.len = 0 THEN c
    ELSE LET c1 == Leave(c, CurrentState(c.s))
             c2 == removeCurrentInlineMessages(c1)
             c3 == sliceTo(c2, c2.s.len - 1)
             c4 == getOrPushCurrentState(c3)
         IN  Return(c4, CurrentState(c4.s))

\* mutant: DropStates leaves the top state before dropping
DropStates_Leave(c, n) ==
    LET c0 == IF c.s.len > 0 THEN Leave(c, CurrentState(c.s)) ELSE c
        c1 == IF c0.s.len > n THEN sliceTo(c0, c0.s.len - n) ELSE setNil(c0)
        c2 == getOrPushCurrentState(c1)
    IN  Return(c2, CurrentState(c2.s))

DropStates(c, n) ==
    LET c1 == IF c.s.len > n THEN sliceTo(c, c.s.len - n) ELSE setNil(c)
        c2 == getOrPushCurrentState(c1)
    IN  Return(c2, CurrentState(c2.s))

\* mutant: ReplaceState leaves the outgoing state first
ReplaceState_Leave(c, st) ==
    IF c.s.len = 0 THEN c
    ELSE LET c1 == Leave(c, CurrentState(c.s))
         IN  Enter([c1 EXCEPT !.s.arr[c1.s.len] = st], st)

ReplaceState(c, st) ==
    IF c.s.len = 0 THEN c
    ELSE Enter([c EXCEPT !.s.arr[c.s.len] = st], st)

\* mutant: ResetToState pushes without clearing the stack
ResetToState_NoClear(c, st) == PushState(c, st)

ResetToState(c, st) == PushState(setNil(c), st)

\* mutant: getOrCreateSession creates a session without looking at the map
missing_Always(ref) == TRUE

\* Bot.getOrCreateSession: if session == nil
missing(ref) == ref = Nil

\* Bot.getOrCreateSession, the branch that creates the session
createSession(userId, chatId) ==
    LET c1 == getOrPushCurrentState(Ctx(NewSession(userId, chatId)))
    IN  Enter(c1, CurrentState(c1.s))

----------------------------------------------------------------------------
(* Spec: one thread drives one session.                                    *)

Threads == {"loop", "bcast", "mock"}

\* local variables of a thread: the operation it runs with its arguments,
\* the state it read last, and the chat, user and session it works on
NoLocal == [op |-> "none", st |-> NilState, cur |-> NilState, msg |-> FALSE,
            chat |-> Nil, user |-> Nil, ref |-> Nil]

\* lastOp: the operation, its arguments, and what the session looked like
\* when it started (depth of the stack, number of live bindings, whether
\* the operation before it was a PushState), and whether ListUsers returned
\* an error while it ran
NoOp == [op |-> "none", st |-> "none", n |-> 0,
         depth |-> 0, bound |-> 0, afterPush |-> FALSE, listErr |-> FALSE]

\* the users the UserManager knows when the bot starts
KnownUsers == {1}

\* Bot.Run has not started receiving: no update is pending, the accept-window
\* is closed (the zero value of Bot.acceptNewUser) and no timer runs
InitRunVars ==
    /\ updates = <<>>
    /\ users = KnownUsers
    /\ acceptNewUser = FALSE
    /\ timers = {}
    /\ now = 0
    /\ shutdown = FALSE
    /\ trace = <<>>
    /\ history = <<>>

\* New has returned a Bot: both collaborators were given and Connect
\* succeeded
Running == [AppStateManager |-> TRUE, UserManager |-> TRUE,
            Connect |-> "ok", made |-> "bot"]

\* no pass of storeSessions has run: for every chat the outcome of the
\* StoreSessionState call of the pass that started last, the chats whose
\* call failed in the pass before it, and the LastAction of the record kept
\* for every chat (0: the zero time, or no record)
NoStore == [pass |-> [ch \in ChatIds |-> "none"], failed |-> {},
            LastAction |-> [ch \in ChatIds |-> 0]]

\* no goroutine has been started, nobody holds a session's mMessages, the
\* stream of updates is open and ctx is not cancelled
InitTasks ==
    /\ mMessages = [ch \in ChatIds |-> Free]
    /\ spawned = [ch \in ChatIds |-> "none"]
    /\ stop = "none"

InitBotVars ==
    /\ bot = Running
    /\ stored = NoStore
    /\ InitTasks

InitCommon ==
    /\ config \in RootStates
    /\ sessions = [c \in ChatIds |-> Nil]
    /\ heap = <<>>
    /\ mSessions = Free
    /\ pc = [t \in Threads |-> "idle"]
    /\ local = [t \in Threads |-> NoLocal]
    /\ returned = {}
    /\ calls = <<>>
    /\ lastOp = NoOp
    /\ panicked = FALSE
    /\ InitRunVars
    /\ InitBotVars

Init == InitCommon

S == heap[1]

\* the chat the single-thread specification follows
FocusChat == CHOOSE ch \in ChatIds : \A o \in ChatIds : ch <= o

\* the session the thread works on came out of the registry
FromRegistry == heap # <<>> /\ sessions[S.chatId] = 1

Bound(s) == {m \in MsgIds : s.currentInlineMessages[m] # NoBinding}

OpRecord(op, stName, n) ==
    [op |-> op, st |-> stName, n |-> n,
     depth |-> IF heap = <<>> THEN 0 ELSE S.len,
     bound |-> IF heap = <<>> THEN 0 ELSE Cardinality(Bound(S)),
     afterPush |-> lastOp.op = "PushState", listErr |-> FALSE]

\* commit the outcome c of operation op on the session
Commit(c, op, stName, n) ==
    /\ heap' = [heap EXCEPT ![1] = c.s]
    /\ calls' = c.calls
    /\ panicked' = c.panic
    /\ lastOp' = [OpRecord(op, stName, n) EXCEPT !.listErr = c.listErr]
    /\ UNCHANGED <<config, botVars, sessions, mSessions, pc, local, returned, runVars>>

\* NewSession called directly: a session whose stack is still empty
CallNewSession ==
    /\ ~panicked /\ heap = <<>>
    /\ heap' = <<NewSession(FocusChat, FocusChat)>>
    /\ lastOp' = OpRecord("NewSession", "none", 0)
    /\ calls' = <<>>
    /\ UNCHANGED <<config, botVars, sessions, mSessions, pc, local, returned, panicked, runVars>>

\* getOrCreateSession on first contact, run by the only thread
CallGetOrCreateSession ==
    /\ ~panicked /\ heap = <<>>
    /\ LET c == createSession(FocusChat, FocusChat) IN
         /\ heap' = <<c.s>>
         /\ sessions' = [sessions EXCEPT ![FocusChat] = 1]
         /\ calls' = c.calls
         /\ panicked' = c.panic
         /\ lastOp' = OpRecord("getOrCreateSession", "none", 0)
    /\ UNCHANGED <<config, botVars, mSessions, pc, local, returned, runVars>>

CallPushState ==
    /\ ~panicked /\ heap # <<>> /\ S.len < MaxDepth
    /\ \E st \in InputStates : Commit(PushState(Ctx(S), st), "PushState", st.name, 0)

CallPopState ==
    /\ ~panicked /\ heap # <<>>
    /\ Commit(PopState(Ctx(S)), "PopState", "none", 0)

CallReplaceState ==
    /\ ~panicked /\ heap # <<>>
    /\ \E st \in InputStates : Commit(ReplaceState(Ctx(S), st), "ReplaceState", st.name, 0)

CallResetToState ==
    /\ ~panicked /\ heap # <<>>
    /\ \E st \in InputStates : Commit(ResetToState(Ctx(S), st), "ResetToState", st.name, 0)

CallDropStates ==
    /\ ~panicked /\ heap # <<>>
    /\ \E n \in DropArgs : Commit(DropStates(Ctx(S), n), "DropStates", "none", n)

CallSendInlineMessage ==
    /\ ~panicked /\ heap # <<>>
    /\ \E m \in MsgIds, h \in Handlers :
         Commit(SendInlineMessage(Ctx(S), m, h), "SendInlineMessage", h, m)

Next ==
    \/ CallNewSession
    \/ CallGetOrCreateSession
    \/ CallPushState
    \/ CallPopState
    \/ CallReplaceState
    \/ CallResetToState
    \/ CallDropStates
    \/ CallSendInlineMessage

Spec == Init /\ [][Next]_vars

----------------------------------------------------------------------------
(* Properties of the state stack and the inline tracker, under Spec.       *)

Interface(cs) == SelectSeq(cs, LAMBDA e : e.op \in {"Enter", "Leave", "Return"})

Hooks(cs) == SelectSeq(cs, LAMBDA e : e.op \in {"onEnter", "onLeave", "onReturn"})

CallOf(op, st) == [op |-> op, st |-> st.name]

StateNamed(nm) == CHOOSE st \in InputStates \cup {NilState} : st.name = nm

\* a step of the named operation on the session
StepOf(op) == heap # <<>> /\ heap' # <<>> /\ lastOp'.op = op

Cleared(s) == Bound(s) = {}

\* C2: a session obtained from the registry always holds at least one state
\* on its stack, and its current state is a state (never nil) whatever
\* sequence of PushState, PopState, ReplaceState, ResetToState and
\* DropStates(n) one thread has run on it.
C2_NeverEmpty ==
    FromRegistry =>
        /\ S.len >= 1
        /\ (~panicked => CurrentState(S) # NilState)

\* the last state was popped and the root state was materialized in a fresh
\* one-element stack
C2_Witness ==
    /\ FromRegistry /\ ~panicked
    /\ lastOp.op = "PopState" /\ lastOp.depth = 1
    /\ calls[1] = CallOf("Leave", StateA)
    /\ S.arr = <<rootState>> /\ S.len = 1

Mismatch(s, m) ==
    /\ s.currentInlineMessages[m] # NoBinding
    /\ s.currentInlineMessages[m].owner # CurrentState(s).name

\* C5 as stated: every binding that resolves was made by the current top.
C5_AsStated ==
    FromRegistry => \A m \in MsgIds : ~Mismatch(S, m)

\* C5 amended: a binding that resolves was made by the state that was the
\* top then, and that state is still the top unless a ReplaceState or a
\* DropStates ran since: only these two make a binding outlive its maker.
C5_OutlivesOnlyByReplaceOrDrop ==
    [][(heap # <<>> /\ heap' # <<>>) =>
         \A m \in MsgIds :
            (Mismatch(S', m) /\ ~Mismatch(S, m))
               => lastOp'.op \in {"ReplaceState", "DropStates"}]_vars

\* a binding made by B on [R, A, B] is still there after DropStates(2)
C5_Witness ==
    /\ heap # <<>> /\ ~panicked
    /\ lastOp.op = "DropStates" /\ lastOp.n = 2 /\ lastOp.depth = 3
    /\ stateStack(S) = <<rootState>>
    /\ \E m \in MsgIds : S.currentInlineMessages[m].owner = "B"

C8_EmptyStackSafe ==
    [][(heap # <<>> /\ heap' # <<>> /\ S.len = 0
          /\ lastOp'.op \in {"PopState", "DropStates"}) =>
         /\ ~panicked'
         /\ stateStack(S') \in {<<>>, <<rootState>>}
         /\ S'.currentInlineMessages = S.currentInlineMessages]_vars

----------------------------------------------------------------------------
(* SpecRace: the dispatch loop handles events for a session while a        *)
(* goroutine spawned by Bot.broadcast works on the same session.  Nothing  *)
(* in the source orders the two, so every Go statement is a step of its    *)
(* own.  Only removeCurrentInlineMessages runs under the session's         *)
(* mMessages lock and is one step.                                         *)

RaceThreads == {"loop", "bcast"}

InitRace ==
    /\ config \in RootStates
    /\ heap = <<createSession(FocusChat, FocusChat).s>>
    /\ sessions = [c \in ChatIds |-> IF c = FocusChat THEN 1 ELSE Nil]
    /\ mSessions = Free
    /\ pc = [t \in Threads |-> "idle"]
    /\ local = [t \in Threads |-> NoLocal]
    /\ calls = <<>>
    /\ lastOp = NoOp
    /\ returned = {}
    /\ panicked = FALSE
    /\ InitRunVars
    /\ InitBotVars

\* thread t executes one statement with outcome c and continues at `to`
Stmt(t, c, to) ==
    /\ heap' = [heap EXCEPT ![1] = c.s]
    /\ panicked' = c.panic
    /\ pc' = [pc EXCEPT ![t] = to]
    /\ UNCHANGED <<config, botVars, sessions, mSessions, calls, lastOp, returned, runVars>>

\* the end of the operation: the loop waits for the next update, the
\* broadcast goroutine ends
Done == "idle"

\* Bot.Run receives an update for the chat and calls session.Handle
Dispatch ==
    /\ ~panicked /\ pc["loop"] = "idle"
    /\ \E op \in {"PopState", "ReplaceState", "ResetToState", "PushState", "broadcast"},
          st \in InputStates, m \in BOOLEAN :
         /\ op = "broadcast" => pc["bcast"] = "idle"
         /\ op # "broadcast" => ~m
         \* /back and /reload carry no state, /home resets to the root
         \* state, the handler of a state pushes A
         /\ op \in {"PopState", "ReplaceState", "ResetToState", "broadcast"}
               => st = rootState
         /\ op = "PushState" => st = StateA
         /\ S.len >= MaxDepth => op # "PushState"
         /\ local' = [local EXCEPT !["loop"] =
                         [NoLocal EXCEPT !.op = op, !.st = st, !.msg = m]]
    /\ pc' = [pc EXCEPT !["loop"] = "h_check"]
    /\ UNCHANGED <<config, botVars, sessions, heap, mSessions, calls, lastOp, returned, panicked, runVars>>

\* session.Handle: getOrPushCurrentState, if len(bs.stateStack) == 0 {...}
HandleGetCheck ==
    /\ ~panicked /\ pc["loop"] = "h_check"
    /\ Stmt("loop", getOrPushCurrentState(Ctx(S)), "h_ret")
    /\ UNCHANGED local

\* session.Handle: return bs.stateStack[len(bs.stateStack)-1]
HandleGetRet ==
    /\ ~panicked /\ pc["loop"] = "h_ret"
    /\ IF S.len = 0
       THEN Stmt("loop", Panic(Ctx(S)), "h_ret") /\ UNCHANGED local
       ELSE /\ Stmt("loop", Ctx(S), "h_call")
            /\ local' = [local EXCEPT !["loop"].cur = CurrentState(S)]

\* the handler of the current state (or the command table of Bot.Run) acts
HandleCall ==
    /\ ~panicked /\ pc["loop"] = "h_call"
    /\ LET op == local["loop"].op IN
       CASE op = "PopState" ->
              /\ Stmt("loop", Ctx(S), "pop_check") /\ UNCHANGED local
         [] op = "ReplaceState" ->
              \* session.ReplaceState(session.CurrentState())
              /\ Stmt("loop", Ctx(S), "repl_check")
              /\ local' = [local EXCEPT !["loop"].st = CurrentState(S)]
         [] op = "ResetToState" ->
              /\ Stmt("loop", Ctx(S), "reset_nil") /\ UNCHANGED local
         [] op = "PushState" ->
              /\ Stmt("loop", Ctx(S), "push_check") /\ UNCHANGED local
         [] op = "broadcast" ->
              \* Bot.broadcast: go func() {...}() for the session
              /\ pc["bcast"] = "idle"
              /\ pc' = [pc EXCEPT !["loop"] = Done, !["bcast"] = "b_msg"]
              /\ \E ns \in {StateB, NilState} :
                   local' = [local EXCEPT !["bcast"] =
                       [NoLocal EXCEPT !.op = "broadcast", !.st = ns,
                                       !.msg = local["loop"].msg]]
              /\ UNCHANGED <<config, botVars, sessions, heap, mSessions, calls,
                             lastOp, returned, panicked, runVars>>

\* broadcast goroutine: if options.message != "" { session.SendMessage(...) }
BcastSend ==
    /\ ~panicked /\ pc["bcast"] = "b_msg"
    /\ Stmt("bcast", Ctx(S), "b_state")
    /\ UNCHANGED local

\* broadcast goroutine: if options.newState != nil { session.ResetToState(...) }
BcastState ==
    /\ ~panicked /\ pc["bcast"] = "b_state"
    /\ Stmt("bcast", Ctx(S),
            IF local["bcast"].st = NilState THEN Done ELSE "reset_nil")
    /\ UNCHANGED local

\* ResetToState: bs.stateStack = nil
StmtResetNil(t) ==
    /\ ~panicked /\ pc[t] = "reset_nil"
    /\ Stmt(t, setNil(Ctx(S)), "push_check")
    /\ UNCHANGED local

\* PushState: if len(bs.stateStack) > 0
StmtPushCheck(t) ==
    /\ ~panicked /\ pc[t] = "push_check"
    /\ Stmt(t, Ctx(S), IF S.len > 0 THEN "push_leave" ELSE "push_clear")
    /\ UNCHANGED local

\* PushState: bs.CurrentState().Leave(bs)
StmtPushLeave(t) ==
    /\ ~panicked /\ pc[t] = "push_leave"
    /\ Stmt(t, Leave(Ctx(S), CurrentState(S)), "push_clear")
    /\ UNCHANGED local

\* PushState: bs.removeCurrentInlineMessages()
StmtPushClear(t) ==
    /\ ~panicked /\ pc[t] = "push_clear"
    /\ Stmt(t, removeCurrentInlineMessages(Ctx(S)), "push_append")
    /\ UNCHANGED local

\* PushState: bs.stateStack = append(bs.stateStack, state)
StmtPushAppend(t) ==
    /\ ~panicked /\ pc[t] = "push_append"
    /\ Stmt(t, appendState(Ctx(S), local[t].st), "push_enter")
    /\ UNCHANGED local

\* PushState: state.Enter(bs)
StmtPushEnter(t) ==
    /\ ~panicked /\ pc[t] = "push_enter"
    /\ Stmt(t, Enter(Ctx(S), local[t].st), Done)
    /\ UNCHANGED local

\* PopState: if len(bs.stateStack) == 0 { return }
StmtPopCheck(t) ==
    /\ ~panicked /\ pc[t] = "pop_check"
    /\ Stmt(t, Ctx(S), IF S.len = 0 THEN Done ELSE "pop_leave")
    /\ UNCHANGED local

\* PopState: bs.CurrentState().Leave(bs)
StmtPopLeave(t) ==
    /\ ~panicked /\ pc[t] = "pop_leave"
    /\ Stmt(t, Leave(Ctx(S), CurrentState(S)), "pop_clear")
    /\ UNCHANGED local

\* PopState: bs.removeCurrentInlineMessages()
StmtPopClear(t) ==
    /\ ~panicked /\ pc[t] = "pop_clear"
    /\ Stmt(t, removeCurrentInlineMessages(Ctx(S)), "pop_slice")
    /\ UNCHANGED local

\* PopState: bs.stateStack = bs.stateStack[:len(bs.stateStack)-1]
StmtPopSlice(t) ==
    /\ ~panicked /\ pc[t] = "pop_slice"
    /\ Stmt(t, sliceTo(Ctx(S), S.len - 1), "pop_get")
    /\ UNCHANGED local

\* PopState: curState := bs.getOrPushCurrentState()
StmtPopGet(t) ==
    /\ ~panicked /\ pc[t] = "pop_get"
    /\ LET c == getOrPushCurrentState(Ctx(S)) IN
         /\ Stmt(t, c, "pop_return")
         /\ local' = [local EXCEPT ![t].cur = CurrentState(c.s)]

\* PopState: curState.Return(bs)
StmtPopReturn(t) ==
    /\ ~panicked /\ pc[t] = "pop_return"
    /\ Stmt(t, Return(Ctx(S), local[t].cur), Done)
    /\ UNCHANGED local

\* ReplaceState: if len(bs.stateStack) == 0 { return }
StmtReplCheck(t) ==
    /\ ~panicked /\ pc[t] = "repl_check"
    /\ Stmt(t, Ctx(S), IF S.len = 0 THEN Done ELSE "repl_set")
    /\ UNCHANGED local

\* ReplaceState: bs.stateStack[len(bs.stateStack)-1] = state
StmtReplSet(t) ==
    /\ ~panicked /\ pc[t] = "repl_set"
    /\ IF S.len = 0
       THEN Stmt(t, Panic(Ctx(S)), "repl_set")
       ELSE Stmt(t, [Ctx(S) EXCEPT !.s.arr[S.len] = local[t].st], "repl_enter")
    /\ UNCHANGED local

\* ReplaceState: state.Enter(bs)
StmtReplEnter(t) ==
    /\ ~panicked /\ pc[t] = "repl_enter"
    /\ Stmt(t, Enter(Ctx(S), local[t].st), Done)
    /\ UNCHANGED local

NextRace ==
    \/ Dispatch
    \/ HandleGetCheck
    \/ HandleGetRet
    \/ HandleCall
    \/ BcastSend
    \/ BcastState
    \/ \E t \in RaceThreads : StmtResetNil(t)
    \/ \E t \in RaceThreads : StmtPushCheck(t)
    \/ \E t \in RaceThreads : StmtPushLeave(t)
    \/ \E t \in RaceThreads : StmtPushClear(t)
    \/ \E t \in RaceThreads : StmtPushAppend(t)
    \/ \E t \in RaceThreads : StmtPushEnter(t)
    \/ \E t \in RaceThreads : StmtPopCheck(t)
    \/ \E t \in RaceThreads : StmtPopLeave(t)
    \/ \E t \in RaceThreads : StmtPopClear(t)
    \/ \E t \in RaceThreads : StmtPopSlice(t)
    \/ \E t \in RaceThreads : StmtPopGet(t)
    \/ \E t \in RaceThreads : StmtPopReturn(t)
    \/ \E t \in RaceThreads : StmtReplCheck(t)
    \/ \E t \in RaceThreads : StmtReplSet(t)
    \/ \E t \in RaceThreads : StmtReplEnter(t)

SpecRace == InitRace /\ [][NextRace]_vars

\* the thread has run at least one statement of the handling of an event or
\* of a broadcast task that touches the stack, and not yet the last
LoopMid == {"h_ret", "h_call", "reset_nil", "push_check", "push_leave",
            "push_clear", "push_append", "push_enter", "pop_check",
            "pop_leave", "pop_clear", "pop_slice", "pop_get", "pop_return",
            "repl_check", "repl_set", "repl_enter"}

BcastMid == {"push_check", "push_leave", "push_clear", "push_append", "push_enter"}

\* C1: the handling of an inbound event and a broadcast task for the same
\* session are applied one after the other: the two are never both in the
\* middle of their stack operations, and neither panics on a stack the
\* other has half changed.
C1_StrictSequence ==
    /\ ~(pc["loop"] \in LoopMid /\ pc["bcast"] \in BcastMid)
    /\ ~panicked

----------------------------------------------------------------------------
(* SpecRegistry: the dispatch loop and MockBot.CreateSession call          *)
(* getOrCreateSession concurrently, for the same or for different chats.   *)

Callers == {"loop", "mock"}

\* no more session objects are allocated than this
MaxHeap == NumChats + 1

InitRegistry == InitCommon

\* Bot.Run: getOrCreateSession(ctx, UserId(user.ID), ChatId(upd.FromChat().ID))
\* MockBot.CreateSession: chatId := ChatId(userId)
CallerBegin(t) ==
    /\ ~panicked /\ pc[t] = "idle"
    /\ \E u \in ChatIds, ch \in ChatIds :
         /\ t = "mock" => ch = u
         /\ local' = [local EXCEPT ![t] =
                         [NoLocal EXCEPT !.op = "getOrCreateSession",
                                         !.user = u, !.chat = ch]]
    /\ pc' = [pc EXCEPT ![t] = "g_lock"]
    /\ UNCHANGED <<config, botVars, sessions, heap, mSessions, calls, lastOp, returned, panicked, runVars>>

\* b.mSessions.Lock()
RegLock(t) ==
    /\ ~panicked /\ pc[t] = "g_lock"
    /\ mSessions = Free
    /\ mSessions' = t
    /\ pc' = [pc EXCEPT ![t] = "g_read"]
    /\ UNCHANGED <<config, botVars, sessions, heap, local, calls, lastOp, returned, panicked, runVars>>

\* mutant: the session of a chat is found only for the user it was made for
lookup_ByUser(chatId, userId) ==
    IF sessions[chatId] # Nil /\ heap[sessions[chatId]].userId = userId
    THEN sessions[chatId] ELSE Nil

\* getOrCreateSession: session := b.sessions[chatId], the user id is not
\* part of the key
lookup(chatId, userId) == sessions[chatId]

\* session := b.sessions[chatId]; if session == nil
RegRead(t) ==
    /\ ~panicked /\ pc[t] = "g_read"
    /\ LET session == lookup(local[t].chat, local[t].user) IN
         /\ local' = [local EXCEPT ![t].ref = session]
         /\ pc' = [pc EXCEPT ![t] = IF missing(session) THEN "g_new" ELSE "g_unlock"]
    /\ UNCHANGED <<config, botVars, sessions, heap, mSessions, calls, lastOp, returned, panicked, runVars>>

\* session = NewSession(...); b.sessions[chatId] = session;
\* session.getOrPushCurrentState(); session.CurrentState().Activate(session)
RegCreate(t) ==
    /\ ~panicked /\ pc[t] = "g_new"
    /\ Len(heap) < MaxHeap
    /\ LET c == createSession(local[t].user, local[t].chat) IN
         /\ heap' = Append(heap, c.s)
         /\ sessions' = [sessions EXCEPT ![local[t].chat] = Len(heap) + 1]
         /\ local' = [local EXCEPT ![t].ref = Len(heap) + 1]
         /\ calls' = c.calls
         /\ panicked' = c.panic
    /\ pc' = [pc EXCEPT ![t] = "g_unlock"]
    /\ UNCHANGED <<config, botVars, mSessions, lastOp, returned, runVars>>

\* defer b.mSessions.Unlock(); return session, nil
RegUnlock(t) ==
    /\ ~panicked /\ pc[t] = "g_unlock"
    /\ mSessions = t
    /\ mSessions' = Free
    /\ returned' = returned \cup {<<local[t].chat, local[t].ref>>}
    /\ pc' = [pc EXCEPT ![t] = IF t = "mock" THEN "m_store" ELSE "idle"]
    /\ UNCHANGED <<config, botVars, sessions, heap, local, calls, lastOp, panicked, runVars>>

\* MockBot.CreateSession: mb.bot.sessions[chatId], err = ... written without
\* the lock
MockStore ==
    /\ ~panicked /\ pc["mock"] = "m_store"
    /\ sessions' = [sessions EXCEPT ![local["mock"].chat] = local["mock"].ref]
    /\ pc' = [pc EXCEPT !["mock"] = "m_load"]
    /\ UNCHANGED <<config, botVars, heap, mSessions, local, calls, lastOp, returned, panicked, runVars>>

\* the unlocked map write meets a map access of the thread that holds the
\* lock: the runtime may stop the process (concurrent map writes)
MockStoreFatal ==
    /\ ~panicked /\ pc["mock"] = "m_store"
    /\ mSessions # Free
    /\ panicked' = TRUE
    /\ UNCHANGED <<config, botVars, sessions, heap, mSessions, pc, local, calls, lastOp, returned, runVars>>

\* MockBot.CreateSession: return mb.bot.sessions[chatId], err
MockLoad ==
    /\ ~panicked /\ pc["mock"] = "m_load"
    /\ returned' = returned \cup {<<local["mock"].chat, sessions[local["mock"].chat]>>}
    /\ pc' = [pc EXCEPT !["mock"] = "idle"]
    /\ UNCHANGED <<config, botVars, sessions, heap, mSessions, local, calls, lastOp, panicked, runVars>>

NextRegistry ==
    \/ \E t \in Callers : CallerBegin(t)
    \/ \E t \in Callers : RegLock(t)
    \/ \E t \in Callers : RegRead(t)
    \/ \E t \in Callers : RegCreate(t)
    \/ \E t \in Callers : RegUnlock(t)
    \/ MockStore
    \/ MockStoreFatal
    \/ MockLoad

SpecRegistry == InitRegistry /\ [][NextRegistry]_vars

Created(ch) == {r \in DOMAIN heap : heap[r].chatId = ch}

\* C10: however concurrent getOrCreateSession calls for one chat interleave,
\* at most one session is ever created for the chat, every caller receives
\* that session, and no later call replaces a session in the registry.
C10_OneSessionPerChat ==
    /\ [](\A ch \in ChatIds :
            /\ Cardinality(Created(ch)) <= 1
            /\ \A p \in returned :
                 p[1] = ch => (p[2] # Nil /\ Created(ch) = {p[2]} /\ sessions[ch] = p[2]))
    /\ [][\A ch \in ChatIds : sessions[ch] # Nil => sessions'[ch] = sessions[ch]]_vars

\* both callers have received the one session of a chat that the loop
\* created and the mock asked for afterwards
C10_Witness ==
    /\ ~panicked
    /\ \E ch \in ChatIds :
         /\ Cardinality(Created(ch)) = 1
         /\ <<ch, sessions[ch]>> \in returned
         /\ local["loop"].chat = ch /\ local["mock"].chat = ch
         /\ pc["loop"] = "idle" /\ pc["mock"] = "idle"
         /\ local["loop"].ref = sessions[ch] /\ local["mock"].ref = sessions[ch]

----------------------------------------------------------------------------
(* SpecLock: who holds the registry lock while Bot.Run loads the sessions, *)
(* resolves the session of an update, stores the sessions on the ticker    *)
(* and unwinds them at shutdown, and while MockBot.CreateSession runs.     *)
(* One Go statement is one step; pc[t] names the statement thread t is at. *)

RECURSIVE LeaveAll(_, _)
\* session.Shutdown: for i := len(bs.stateStack) - 1; i >= 0; i-- { Leave }
LeaveAll(c, i) ==
    IF i = 0 \/ c.panic THEN c
    ELSE LeaveAll(Leave(c, c.s.arr[i]), i - 1)

\* mutant: Shutdown leaves the current state only
Shutdown_TopOnly(c) ==
    removeCurrentInlineMessages(LeaveAll(c, IF c.s.len = 0 THEN 0 ELSE 1))

\* session.Shutdown
Shutdown(c) == removeCurrentInlineMessages(LeaveAll(c, c.s.len))

\* Bot.Run starts with loadSessions
InitLock ==
    /\ config \in RootStates
    /\ sessions = [c \in ChatIds |-> Nil]
    /\ heap = <<>>
    /\ mSessions = Free
    /\ pc = [t \in Threads |-> IF t = "loop" THEN "ld_lock" ELSE "idle"]
    /\ local = [t \in Threads |-> NoLocal]
    /\ returned = {}
    /\ calls = <<>>
    /\ lastOp = NoOp
    /\ panicked = FALSE
    /\ InitRunVars
    /\ InitBotVars

\* thread t moves from statement `from` to statement `to`
Goto(t, from, to) ==
    /\ ~panicked /\ pc[t] = from
    /\ pc' = [pc EXCEPT ![t] = to]

\* loadSessions: b.mSessions.Lock()
LoadLock ==
    /\ Goto("loop", "ld_lock", "ld_load")
    /\ mSessions = Free
    /\ mSessions' = "loop"
    /\ UNCHANGED <<config, botVars, sessions, heap, local, calls, lastOp, returned, panicked, runVars>>

\* loadSessions: sessions, err := b.config.AppStateManager.LoadSessionStates()
LoadStates ==
    /\ \E err \in BOOLEAN :
         /\ Goto("loop", "ld_load", IF err THEN "ld_unlock" ELSE "ld_next")
         /\ lastOp' = [NoOp EXCEPT !.op = "LoadSessionStates",
                                   !.st = IF err THEN "error" ELSE "ok"]
    /\ UNCHANGED <<config, botVars, sessions, heap, mSessions, local, calls, returned, panicked, runVars>>

\* mutant: every stored record is taken for a usable one
invalidSession_Never(u, ch) == FALSE

\* loadSessions: if session.ChatID == 0 || session.UserID == 0
invalidSession(u, ch) == ch = Nil \/ u = Nil

\* loadSessions: for _, session := range sessions, with the check
\* session.ChatID == 0 || session.UserID == 0; msg holds whether the
\* record's LastAction lies within the last 30 days
LoadNext ==
    \/ /\ Goto("loop", "ld_next", "ld_unlock")
       /\ UNCHANGED local
    \/ /\ Len(heap) < MaxHeap
       /\ \E u \in ChatIds \cup {Nil}, ch \in ChatIds \cup {Nil}, recent \in BOOLEAN :
            \* the records of private chats, or records without chat or user
            /\ u = ch \/ u = Nil \/ ch = Nil
            /\ (u = Nil \/ ch = Nil) => ~recent
            /\ Goto("loop", "ld_next", IF invalidSession(u, ch) THEN "ld_next" ELSE "ld_put")
            /\ local' = [local EXCEPT !["loop"] =
                            [NoLocal EXCEPT !.op = "loadSessions", !.user = u,
                                            !.chat = ch, !.msg = recent]]
    /\ UNCHANGED <<config, botVars, sessions, heap, mSessions, calls, lastOp, returned, panicked, runVars>>

\* loadSessions: bs := NewSession(...); b.sessions[session.ChatID] = bs
LoadPut ==
    /\ Goto("loop", "ld_put", "ld_activate")
    /\ heap' = Append(heap, NewSession(local["loop"].user, local["loop"].chat))
    /\ sessions' = [sessions EXCEPT ![local["loop"].chat] = Len(heap) + 1]
    /\ local' = [local EXCEPT !["loop"].ref = Len(heap) + 1]
    /\ UNCHANGED <<config, botVars, mSessions, calls, lastOp, returned, panicked, runVars>>

\* loadSessions: bs.getOrPushCurrentState().Activate(bs) for a recent record,
\* bs.getOrPushCurrentState() for the others
LoadActivate ==
    /\ Goto("loop", "ld_activate", "ld_next")
    /\ LET r == local["loop"].ref
           c1 == getOrPushCurrentState(Ctx(heap[r]))
           c == IF local["loop"].msg THEN Enter(c1, CurrentState(c1.s)) ELSE c1
       IN  /\ heap' = [heap EXCEPT ![r] = c.s]
           /\ calls' = c.calls
           /\ panicked' = c.panic
    /\ UNCHANGED <<config, botVars, sessions, mSessions, local, lastOp, returned, runVars>>

\* loadSessions: defer b.mSessions.Unlock()
LoadUnlock ==
    /\ Goto("loop", "ld_unlock", "idle")
    /\ mSessions = "loop"
    /\ mSessions' = Free
    /\ UNCHANGED <<config, botVars, sessions, heap, local, calls, lastOp, returned, panicked, runVars>>

\* getOrCreateSession: b.config.AppStateManager.CreateAppState(userId, chatId),
\* the argument of NewSession
LockAppState(t) ==
    /\ Goto(t, "g_new", "g_put")
    /\ Len(heap) < MaxHeap
    /\ UNCHANGED <<config, botVars, sessions, heap, mSessions, local, calls, lastOp, returned, panicked, runVars>>

\* getOrCreateSession: session = NewSession(...); b.sessions[chatId] = session;
\* session.getOrPushCurrentState()
LockPut(t) ==
    /\ Goto(t, "g_put", "g_activate")
    /\ LET c == getOrPushCurrentState(Ctx(NewSession(local[t].user, local[t].chat))) IN
         heap' = Append(heap, c.s)
    /\ sessions' = [sessions EXCEPT ![local[t].chat] = Len(heap) + 1]
    /\ local' = [local EXCEPT ![t].ref = Len(heap) + 1]
    /\ UNCHANGED <<config, botVars, mSessions, calls, lastOp, returned, panicked, runVars>>

\* getOrCreateSession: session.CurrentState().Activate(session)
LockActivate(t) ==
    /\ Goto(t, "g_activate", "g_unlock")
    /\ LET r == local[t].ref
           c == Enter(Ctx(heap[r]), CurrentState(heap[r]))
       IN  /\ heap' = [heap EXCEPT ![r] = c.s]
           /\ calls' = c.calls
           /\ panicked' = c.panic
    /\ UNCHANGED <<config, botVars, sessions, mSessions, local, lastOp, returned, runVars>>

\* Bot.Run: case <-sessionStoreTicker.C: b.storeSessions(ctx)
StoreBegin ==
    /\ Goto("loop", "idle", "st_lock")
    /\ local' = [local EXCEPT !["loop"] = [NoLocal EXCEPT !.op = "ticker"]]
    /\ UNCHANGED <<config, botVars, sessions, heap, mSessions, calls, lastOp, returned, panicked, runVars>>

\* storeSessions: b.mSessions.Lock(); chat is the cursor of the range loop
StoreLock ==
    /\ Goto("loop", "st_lock", "st_iter")
    /\ mSessions = Free
    /\ mSessions' = "loop"
    /\ local' = [local EXCEPT !["loop"].chat = 1]
    /\ stored' = [stored EXCEPT !.pass = NoStore.pass,
                                !.failed = {ch \in ChatIds : stored.pass[ch] = "err"}]
    /\ UNCHANGED <<config, bot, mMessages, spawned, stop, sessions, heap, calls, lastOp, returned, panicked, runVars>>

\* the range loop over b.sessions of thread "loop": the next entry of the
\* map, if there is one
RangeSessions(at, body, end) ==
    /\ pc["loop"] = at
    /\ LET ch == local["loop"].chat IN
         IF ch > NumChats
         THEN /\ Goto("loop", at, end)
              /\ local' = [local EXCEPT !["loop"].chat = 1]
         ELSE IF sessions[ch] = Nil
         THEN /\ Goto("loop", at, at)
              /\ local' = [local EXCEPT !["loop"].chat = ch + 1]
         ELSE /\ Goto("loop", at, body)
              /\ local' = [local EXCEPT !["loop"].ref = sessions[ch]]
    /\ UNCHANGED <<config, botVars, sessions, heap, mSessions, calls, lastOp, returned, panicked, runVars>>

\* storeSessions: for _, session := range b.sessions
StoreIter ==
    /\ mSessions = "loop"
    /\ RangeSessions("st_iter", "st_store", "st_unlock")

\* storeSessions: err := b.config.AppStateManager.StoreSessionState(...); an
\* error is logged and the loop goes on.  Under SpecLock the outcomes of the
\* calls are not kept.
StoreCall ==
    /\ Goto("loop", "st_store", "st_iter")
    /\ local' = [local EXCEPT !["loop"].chat = @ + 1]
    /\ UNCHANGED <<config, botVars, sessions, heap, mSessions, calls, lastOp, returned, panicked, runVars>>

\* storeSessions: defer b.mSessions.Unlock(); Run goes on with the select, or
\* has returned when the deferred function called storeSessions
StoreUnlock ==
    /\ Goto("loop", "st_unlock",
            IF local["loop"].op = "shutdown" THEN "stopped" ELSE "idle")
    /\ mSessions = "loop"
    /\ mSessions' = Free
    /\ UNCHANGED <<config, botVars, sessions, heap, local, calls, lastOp, returned, panicked, runVars>>

\* Bot.Run: case <-ctx.Done(), case <-b.shutdown: return nil; the deferred
\* function starts
RunReturn ==
    /\ Goto("loop", "idle", "sd_iter")
    /\ local' = [local EXCEPT !["loop"] = [NoLocal EXCEPT !.op = "shutdown", !.chat = 1]]
    /\ UNCHANGED <<config, botVars, sessions, heap, mSessions, calls, lastOp, returned, panicked, runVars>>

\* deferred function of Run: for _, session := range b.sessions
ShutdownIter ==
    /\ local["loop"].op = "shutdown"
    /\ RangeSessions("sd_iter", "sd_shutdown", "fe_iter")

\* deferred function of Run: session.Shutdown()
ShutdownSession ==
    /\ Goto("loop", "sd_shutdown", "sd_iter")
    /\ LET r == local["loop"].ref
           c == Shutdown(Ctx(heap[r]))
       IN  /\ heap' = [heap EXCEPT ![r] = c.s]
           /\ calls' = c.calls
           /\ panicked' = c.panic
    /\ local' = [local EXCEPT !["loop"].chat = @ + 1]
    /\ UNCHANGED <<config, botVars, sessions, mSessions, lastOp, returned, runVars>>

\* ForeachSessionAsync: for _, session := range b.sessions
ForeachIter ==
    /\ local["loop"].op = "shutdown"
    /\ RangeSessions("fe_iter", "fe_go", "st_lock")

\* ForeachSessionAsync: go func() { do(session) }()
ForeachGo ==
    /\ Goto("loop", "fe_go", "fe_iter")
    /\ local' = [local EXCEPT !["loop"].chat = @ + 1]
    /\ spawned' = [spawned EXCEPT ![heap[local["loop"].ref].chatId] = "started"]
    /\ UNCHANGED <<config, bot, stored, mMessages, stop, sessions, heap, mSessions, calls,
                   lastOp, returned, panicked, runVars>>

NextLock ==
    \/ LoadLock
    \/ LoadStates
    \/ LoadNext
    \/ LoadPut
    \/ LoadActivate
    \/ LoadUnlock
    \/ \E t \in Callers : CallerBegin(t)
    \/ \E t \in Callers : RegLock(t)
    \/ \E t \in Callers : RegRead(t)
    \/ \E t \in Callers : LockAppState(t)
    \/ \E t \in Callers : LockPut(t)
    \/ \E t \in Callers : LockActivate(t)
    \/ \E t \in Callers : RegUnlock(t)
    \/ MockStore
    \/ MockStoreFatal
    \/ MockLoad
    \/ StoreBegin
    \/ StoreLock
    \/ StoreIter
    \/ StoreCall
    \/ StoreUnlock
    \/ RunReturn
    \/ ShutdownIter
    \/ ShutdownSession
    \/ ForeachIter
    \/ ForeachGo

SpecLock == InitLock /\ [][NextLock]_vars

\* the statements that call a lifecycle hook or the persistence collaborator
HookOrCollaborator == {"g_new", "g_activate", "ld_load", "ld_activate", "st_store",
                       "sd_shutdown"}

\* the statements that read, write or range over Bot.sessions
MapAccess == {"g_read", "g_put", "ld_put", "st_iter", "sd_iter", "fe_iter",
              "m_store", "m_load"}

\* C11: no thread holds the registry lock while it runs a lifecycle hook of
\* a state or calls the persistence collaborator; a thread that holds the
\* lock is at a statement that reads or writes the session map, or has just
\* taken the lock or is about to release it.
C11_LockOnlyAroundMap ==
    \A t \in Threads : mSessions = t => pc[t] \notin HookOrCollaborator

\* C12: every statement that writes, reads or ranges over the session map
\* (session creation, load at startup, periodic store, shutdown unwinding,
\* ForeachSessionAsync, MockBot.CreateSession) runs while its thread holds
\* the registry lock.
C12_MapUnderLock ==
    \A t \in Threads : pc[t] \in MapAccess => mSessions = t

----------------------------------------------------------------------------
(* SpecRun: the dispatch loop of Bot.Run.  The transport delivers updates, *)
(* the loop receives them one at a time, admits the sender, resolves the   *)
(* session of the chat and routes the update: session.Handle first, the    *)
(* command table of Run when Handle reports the update as unhandled.  The  *)
(* content of an update is drawn when the loop receives it, and what its   *)
(* handlers answer when they are asked.                                    *)

MaxUpdates == 4     \* the transport delivers this many updates
MaxPending == 2     \* updates waiting in the channel at one time
WindowDur == 1      \* the duration a handler passes to AcceptUsers

CommandCancel == "back"
CommandReload == "reload"
CommandHelp == "help"
CommandMain == "home"
CommandUsers == "users"

\* the commands of the inputs: the five of the table and one nobody knows
Commands == {CommandCancel, CommandReload, CommandHelp, CommandMain, CommandUsers, "foo"}

\* what the loop knows of the update it handles
NoUpd == [id |-> 0, kind |-> "none", from |-> Nil, chat |-> Nil, ref |-> Nil,
          cmd |-> "", at |-> FALSE]

\* the content of a message or callback query, and what the handlers that
\* are asked about it answer
NoPayload == [cmd |-> "", at |-> FALSE, stateHandles |-> FALSE, effect |-> "none",
              sessHandles |-> FALSE, hasMessage |-> TRUE, msg |-> 0,
              accepts |-> FALSE, err |-> FALSE]

\* tgbotapi Message.Command: the command without the bot's name
Command(p) == p.cmd

\* tgbotapi Message.CommandWithAt: the command, with @name when the user
\* typed it
CommandWithAt(p) ==
    IF p.cmd = "" THEN <<>> ELSE IF p.at THEN <<p.cmd, "@">> ELSE <<p.cmd>>

Payloads(kind) ==
    IF kind = "message"
    THEN {[NoPayload EXCEPT !.stateHandles = h, !.effect = e] :
             h \in {TRUE}, e \in {"none", "PushState", "SendInlineMessage", "AcceptUsers"}}
         \cup {NoPayload}
         \cup {[NoPayload EXCEPT !.cmd = c, !.at = a, !.stateHandles = TRUE, !.effect = e] :
                 c \in Commands, a \in {FALSE}, e \in {"none", "PushState"}}
         \cup {[NoPayload EXCEPT !.cmd = c, !.at = a, !.sessHandles = sh] :
                 c \in Commands, a \in BOOLEAN, sh \in BOOLEAN}
    ELSE {[NoPayload EXCEPT !.stateHandles = h, !.msg = m, !.accepts = ac, !.err = er] :
             h \in BOOLEAN, m \in MsgIds, ac \in BOOLEAN, er \in BOOLEAN}

\* the handling of an update in progress: the session with the lifecycle
\* calls made so far, the routing steps taken, whether the update counts as
\* handled, and whether a handler has called AcceptUsers
Via(r, tag) == [r EXCEPT !.trace = Append(@, tag)]

Handled(r) == [r EXCEPT !.handled = TRUE]

\* the handler of a state runs: what it does with the session
StateActs(r, p) ==
    CASE p.effect = "PushState" ->
           IF r.c.s.len < MaxDepth
           THEN [r EXCEPT !.c = PushState(r.c, StateA)] ELSE r
      [] p.effect = "SendInlineMessage" ->
           [r EXCEPT !.c = SendInlineMessage(r.c, p.msg, "h1")]
      [] p.effect = "AcceptUsers" -> [r EXCEPT !.window = TRUE]
      [] OTHER -> r

\* mutant: /back is handled by the session and still reported as unhandled
handleCommand_Unreported(r, p) ==
    IF CommandWithAt(p) = <<CommandCancel>>
    THEN Via([r EXCEPT !.c = PopState(r.c)], "session.back")
    ELSE IF p.sessHandles THEN Handled(Via(r, "session.handler"))
    ELSE r

\* session.handleCommand
handleCommand(r, p) ==
    IF CommandWithAt(p) = <<CommandCancel>>
    THEN Handled(Via([r EXCEPT !.c = PopState(r.c)], "session.back"))
    ELSE IF p.sessHandles THEN Handled(Via(r, "session.handler"))
    ELSE r

\* mutant: an expired interaction removes the binding of its message
removeExpiredCallback_Unbind(r, p) ==
    LET r1 == IF p.hasMessage THEN Via(r, "RemoveKeyboardForMessage") ELSE r
        r2 == Via(r1, "alert")
    IN  Handled([r2 EXCEPT !.c.s.currentInlineMessages[p.msg] = NoBinding])

\* session.removeExpiredCallback
removeExpiredCallback(r, p) ==
    LET r1 == IF p.hasMessage THEN Via(r, "RemoveKeyboardForMessage") ELSE r
        r2 == Via(r1, "alert")
    IN  Handled(IF p.err THEN Via(r2, "SendError") ELSE r2)

\* time.Now(): the reading of the clock, never the zero time
timeNow == now + 1

\* session.Handle
Handle(r, p, kind) ==
    LET r0 == [r EXCEPT !.c = [getOrPushCurrentState(r.c) EXCEPT
                                  !.s.lastUserAction = timeNow]] IN
    CASE kind = "message" /\ CommandWithAt(p) # <<>> ->
           LET r1 == Via(r0, "State.HandleCommand") IN
           IF p.stateHandles THEN Handled(StateActs(Via(r1, "state"), p))
           ELSE handleCommand(Via(r1, "session.handleCommand"), p)
      [] kind = "message" /\ CommandWithAt(p) = <<>> ->
           LET r1 == Via(r0, "State.HandleMessage") IN
           IF p.stateHandles THEN Handled(StateActs(Via(r1, "state"), p))
           ELSE r1
      [] kind = "callback" ->
           LET r1 == Via(r0, "State.HandleCallbackQuery") IN
           IF p.stateHandles THEN Handled(Via(r1, "state"))
           ELSE IF ~p.hasMessage THEN [r1 EXCEPT !.c = Panic(@)]
           ELSE LET b == r1.c.s.currentInlineMessages[p.msg]
                    r2 == Via(r1, "currentInlineMessages")
                IN  IF b # NoBinding
                    THEN IF p.accepts
                         THEN Handled(Via(Via(r2, "handleQuery"), "NewCallback"))
                         ELSE removeExpiredCallback(Via(r2, "handleQuery"), p)
                    ELSE removeExpiredCallback(r2, p)
      [] OTHER -> r0

\* mutant: a command the table does not know resets the session to the root
commandTable_DefaultHome(r, cmd) ==
    CASE cmd = CommandCancel -> Via([r EXCEPT !.c = PopState(r.c)], "Run.back")
      [] cmd = CommandReload ->
           Via([r EXCEPT !.c = ReplaceState(r.c, CurrentState(r.c.s))], "Run.reload")
      [] cmd = CommandHelp -> Via(r, "Run.help")
      [] cmd = CommandMain ->
           Via([r EXCEPT !.c = ResetToState(r.c, rootState)], "Run.home")
      [] cmd = CommandUsers ->
           Via([r EXCEPT !.c = ResetToState(r.c, UsersList)], "Run.users")
      [] OTHER -> Via([r EXCEPT !.c = ResetToState(r.c, rootState)], "unhandled command")

\* Bot.Run: switch command
commandTable(r, cmd) ==
    CASE cmd = CommandCancel -> Via([r EXCEPT !.c = PopState(r.c)], "Run.back")
      [] cmd = CommandReload ->
           Via([r EXCEPT !.c = ReplaceState(r.c, CurrentState(r.c.s))], "Run.reload")
      [] cmd = CommandHelp -> Via(r, "Run.help")
      [] cmd = CommandMain ->
           Via([r EXCEPT !.c = ResetToState(r.c, rootState)], "Run.home")
      [] cmd = CommandUsers ->
           Via([r EXCEPT !.c = ResetToState(r.c, UsersList)], "Run.users")
      [] OTHER -> Via(r, "unhandled command")

\* UserManager.UserExists
UserExists(u) == u \in users

\* mutant: every sender is taken for a new user
isNewUser_Always(u) == TRUE

\* Bot.Run: if !b.config.UserManager.UserExists(UserId(user.ID))
isNewUser(u) == ~UserExists(u)

\* mutant: new users are let in whatever the flag says
userNotAllowed_Never(accept) == FALSE

\* Bot.Run: if !b.acceptNewUser
userNotAllowed(accept) == ~accept

\* mutant: Run receives the update that arrived last
NextUpdate_Last(q) == Len(q)

\* case upd, ok := <-updates: the channel hands out the oldest update
NextUpdate(q) == 1

\* Bot.Run is in its select; no update has been delivered yet
InitRun ==
    /\ config \in RootStates
    /\ sessions = [c \in ChatIds |-> Nil]
    /\ heap = <<>>
    /\ mSessions = Free
    /\ pc = [t \in Threads |-> "idle"]
    /\ local = [t \in Threads |-> IF t = "loop" THEN NoUpd ELSE NoLocal]
    /\ returned = {}
    /\ calls = <<>>
    /\ lastOp = NoOp
    /\ panicked = FALSE
    /\ InitRunVars
    /\ InitBotVars

\* the number of updates the transport has delivered so far
Delivered ==
    Len(updates) + Cardinality({i \in DOMAIN history : history[i][1] = "begin"})

\* the transport puts the next update into the channel
RunArrive ==
    /\ ~panicked
    /\ Delivered < MaxUpdates /\ Len(updates) < MaxPending
    /\ updates' = Append(updates, Delivered + 1)
    /\ UNCHANGED <<config, botVars, sessions, heap, mSessions, pc, local, calls, lastOp,
                   returned, panicked, users, acceptNewUser, timers, now,
                   shutdown, trace, history>>

\* the loop is done with the update: continue, back to the select
Finish(tag) ==
    /\ pc' = [pc EXCEPT !["loop"] = "idle"]
    /\ local' = [local EXCEPT !["loop"] = NoUpd]
    /\ trace' = Append(trace, tag)
    /\ history' = Append(history, <<"end", local["loop"].id>>)

\* case upd, ok := <-updates.  A message comes from a user or a channel and
\* has a chat; a callback query comes from a user and has a chat when it
\* carries its message; an inline query has no chat; the mock sends an
\* update with a negative id.
RunReceive ==
    /\ ~panicked /\ pc["loop"] = "idle" /\ updates # <<>>
    /\ LET i == NextUpdate(updates) IN
         /\ updates' = SubSeq(updates, 1, i - 1) \o SubSeq(updates, i + 1, Len(updates))
         /\ history' = Append(history, <<"begin", updates[i]>>)
         /\ \E kind \in {"message", "callback", "inline", "noop"},
               u \in ChatIds \cup {Nil}, ch \in ChatIds \cup {Nil} :
              /\ kind = "message" => ch # Nil /\ (u = Nil \/ u = ch)
              /\ kind = "callback" => u # Nil /\ (ch = Nil \/ ch = u)
              /\ kind = "inline" => u # Nil /\ ch = Nil
              /\ kind = "noop" => u = Nil /\ ch = Nil
              /\ local' = [local EXCEPT !["loop"] =
                              [NoUpd EXCEPT !.id = updates[i], !.kind = kind,
                                            !.from = u, !.chat = ch]]
    /\ pc' = [pc EXCEPT !["loop"] = "r_sender"]
    /\ trace' = <<>>
    /\ calls' = <<>>
    /\ UNCHANGED <<config, botVars, sessions, heap, mSessions, lastOp, returned, panicked,
                   users, acceptNewUser, timers, now, shutdown>>

\* if upd.UpdateID < 0 { continue }; user := upd.SentFrom();
\* if user == nil { continue }
RunSender ==
    /\ ~panicked /\ pc["loop"] = "r_sender"
    /\ IF local["loop"].kind = "noop" THEN Finish("noop")
       ELSE IF local["loop"].from = Nil THEN Finish("no sending user")
       ELSE /\ pc' = [pc EXCEPT !["loop"] = "r_admit"]
            /\ UNCHANGED <<local, trace, history>>
    /\ UNCHANGED <<config, botVars, sessions, heap, mSessions, calls, lastOp, returned,
                   panicked, updates, users, acceptNewUser, timers, now, shutdown>>

\* if !UserExists(user) { if !b.acceptNewUser { continue };
\* if err := AddUser(...); err != nil { continue } }
RunAdmit ==
    /\ ~panicked /\ pc["loop"] = "r_admit"
    /\ LET u == local["loop"].from IN
       IF isNewUser(u)
       THEN IF userNotAllowed(acceptNewUser)
            THEN Finish("user not allowed") /\ UNCHANGED users
            ELSE \E err \in BOOLEAN :
                   IF err
                   THEN Finish("error adding user") /\ UNCHANGED users
                   ELSE /\ users' = users \cup {u}
                        /\ trace' = Append(trace, "AddUser")
                        /\ pc' = [pc EXCEPT !["loop"] = "r_session"]
                        /\ UNCHANGED <<local, history>>
       ELSE /\ pc' = [pc EXCEPT !["loop"] = "r_session"]
            /\ trace' = Append(trace, "known user")
            /\ UNCHANGED <<local, history, users>>
    /\ UNCHANGED <<config, botVars, sessions, heap, mSessions, calls, lastOp, returned,
                   panicked, updates, acceptNewUser, timers, now, shutdown>>

\* session, err := b.getOrCreateSession(ctx, UserId(user.ID),
\* ChatId(upd.FromChat().ID)): FromChat returns nil for an update without a
\* chat, and reading its ID panics
RunSession ==
    /\ ~panicked /\ pc["loop"] = "r_session"
    /\ LET u == local["loop"].from
           ch == local["loop"].chat
       IN  IF ch = Nil
           THEN /\ panicked' = TRUE
                /\ UNCHANGED <<sessions, heap, pc, local, calls, trace>>
           ELSE IF missing(sessions[ch])
           THEN LET c == createSession(u, ch) IN
                /\ heap' = Append(heap, c.s)
                /\ sessions' = [sessions EXCEPT ![ch] = Len(heap) + 1]
                /\ local' = [local EXCEPT !["loop"].ref = Len(heap) + 1]
                /\ calls' = c.calls
                /\ panicked' = c.panic
                /\ trace' = Append(trace, "NewSession")
                /\ pc' = [pc EXCEPT !["loop"] = "r_handle"]
           ELSE /\ local' = [local EXCEPT !["loop"].ref = sessions[ch]]
                /\ pc' = [pc EXCEPT !["loop"] = "r_handle"]
                /\ UNCHANGED <<sessions, heap, calls, panicked, trace>>
    /\ UNCHANGED <<config, botVars, mSessions, lastOp, returned, updates, users,
                   acceptNewUser, timers, now, shutdown, history>>

\* the handling of the loop's update, as far as it has come
Handling ==
    [c |-> [s |-> heap[local["loop"].ref], calls |-> calls, panic |-> FALSE,
            listErr |-> FALSE],
     trace |-> trace, handled |-> FALSE, window |-> FALSE]

\* the handling goes on while ListUsers returns err
Answering(err) == [Handling EXCEPT !.c = WithListUsers(@, err)]

\* mutant: AcceptUsers opens the window and starts no goroutine to close it
AcceptUsers_NoTimer(called, dur) ==
    IF called
    THEN acceptNewUser' = TRUE /\ timers' = timers
    ELSE UNCHANGED <<acceptNewUser, timers>>

\* Bot.AcceptUsers: b.acceptNewUser = true; go func() {...}()
AcceptUsers(called, dur) ==
    IF called
    THEN acceptNewUser' = TRUE /\ timers' = timers \cup {now + dur}
    ELSE UNCHANGED <<acceptNewUser, timers>>

\* the outcome r of a routing step is written back
Routed(r) ==
    /\ heap' = [heap EXCEPT ![local["loop"].ref] = r.c.s]
    /\ calls' = r.c.calls
    /\ panicked' = r.c.panic
    /\ AcceptUsers(r.window, WindowDur)

\* if !session.Handle(upd)
RunHandle ==
    /\ ~panicked /\ pc["loop"] = "r_handle"
    /\ \E p \in Payloads(local["loop"].kind), err \in BOOLEAN :
         LET r == Handle(Answering(err), p, local["loop"].kind) IN
         /\ Routed(r)
         /\ IF r.c.panic
            THEN /\ trace' = r.trace
                 /\ UNCHANGED <<pc, local, history>>
            ELSE IF r.handled
            THEN /\ pc' = [pc EXCEPT !["loop"] = "idle"]
                 /\ local' = [local EXCEPT !["loop"] = NoUpd]
                 /\ trace' = Append(r.trace, "handled")
                 /\ history' = Append(history, <<"end", local["loop"].id>>)
            ELSE /\ pc' = [pc EXCEPT !["loop"] = "r_table"]
                 /\ local' = [local EXCEPT !["loop"].cmd = Command(p)]
                 /\ trace' = r.trace
                 /\ UNCHANGED history
    /\ UNCHANGED <<config, botVars, sessions, mSessions, lastOp, returned, updates, users,
                   now, shutdown>>

\* if upd.Message != nil && upd.Message.Command() != "" { switch command ... }
\* else { log.Printf("unhandled update") }
RunTable ==
    /\ ~panicked /\ pc["loop"] = "r_table"
    /\ \E err \in BOOLEAN :
       LET r == IF local["loop"].kind = "message" /\ local["loop"].cmd # ""
                THEN commandTable(Answering(err), local["loop"].cmd)
                ELSE Via(Handling, "unhandled update")
       IN  /\ Routed(r)
           /\ IF r.c.panic
              THEN trace' = r.trace /\ UNCHANGED <<pc, local, history>>
              ELSE /\ pc' = [pc EXCEPT !["loop"] = "idle"]
                   /\ local' = [local EXCEPT !["loop"] = NoUpd]
                   /\ trace' = r.trace
                   /\ history' = Append(history, <<"end", local["loop"].id>>)
    /\ UNCHANGED <<config, botVars, sessions, mSessions, lastOp, returned, updates, users,
                   now, shutdown>>

\* the goroutine of AcceptUsers: case <-time.After(dur): b.acceptNewUser =
\* false.  SpecRun does not follow the clock: the timer may fire at any
\* moment after the call.
WindowTimeout ==
    /\ ~panicked
    /\ \E dl \in timers :
         /\ timers' = timers \ {dl}
         /\ acceptNewUser' = FALSE
    /\ UNCHANGED <<config, botVars, sessions, heap, mSessions, pc, local, calls, lastOp,
                   returned, panicked, updates, users, now, shutdown, trace, history>>

NextRun ==
    \/ RunArrive
    \/ RunReceive
    \/ RunSender
    \/ RunAdmit
    \/ RunSession
    \/ RunHandle
    \/ RunTable
    \/ WindowTimeout

SpecRun == InitRun /\ [][NextRun]_vars

----------------------------------------------------------------------------
(* Properties of the dispatch loop, under SpecRun.                         *)

Begun == {i \in DOMAIN history : history[i][1] = "begin"}

Last(q) == q[Len(q)]

\* C13: the loop handles the updates in the order of their arrival and one
\* at a time: an update is begun only when every update begun before it is
\* finished, every update that arrived before it has been begun, and the
\* stack of a session and its hooks change only inside the handling of the
\* update the loop has begun last.  The updates of one chat are part of
\* this order.
C13_ArrivalOrder ==
    /\ [](/\ \A i \in DOMAIN history :
               IF i % 2 = 1 THEN history[i][1] = "begin"
               ELSE history[i] = <<"end", history[i - 1][2]>>
          /\ \A i, j \in Begun : i < j => history[i][2] < history[j][2]
          /\ \A i \in Begun : \A k \in DOMAIN updates : history[i][2] < updates[k]
          /\ \A k, l \in DOMAIN updates : k < l => updates[k] < updates[l])
    /\ [][(heap' # heap \/ calls' # calls) =>
            /\ history' # <<>>
            /\ \/ Last(history') = <<"begin", local'["loop"].id>>
               \/ Last(history') = <<"end", local["loop"].id>>]_vars

\* three updates have been handled one after the other, two of them pushed
\* a state on the same session, and the fourth waits in the channel
C13_Witness ==
    /\ ~panicked /\ pc["loop"] = "idle"
    /\ Len(history) = 6 /\ updates = <<4>>
    /\ \E r \in DOMAIN heap : stateStack(heap[r]) = <<rootState, StateA, StateA>>

\* the loop leaves the admission check of the update it holds
LeavesAdmission == pc["loop"] = "r_admit" /\ pc'["loop"] # "r_admit"

\* C14: an update from a user the UserManager does not know, checked while
\* the accept-window is closed, is dropped: no session is created, no hook
\* or handler runs and AddUser is not called.
C14_UnknownUserDropped ==
    /\ [][(LeavesAdmission /\ ~UserExists(local["loop"].from) /\ ~acceptNewUser) =>
            /\ pc'["loop"] = "idle" /\ ~panicked'
            /\ users' = users
            /\ heap' = heap /\ sessions' = sessions
            /\ calls' = calls
            /\ trace' = <<"user not allowed">>]_vars
    /\ []((trace # <<>> /\ Last(trace) = "user not allowed") => calls = <<>>)

\* the first update came from an unknown user while no window was open: the
\* loop is back in its select, there is no session and no new user
C14_Witness ==
    /\ ~panicked /\ pc["loop"] = "idle"
    /\ history = <<<<"begin", 1>>, <<"end", 1>>>>
    /\ trace = <<"user not allowed">>
    /\ heap = <<>> /\ users = KnownUsers /\ calls = <<>>
    /\ \A ch \in ChatIds : sessions[ch] = Nil

SessionActs == {"session.back", "session.handler"}

TableActs == {"Run.back", "Run.reload", "Run.help", "Run.home", "Run.users"}

At(tag) == {i \in DOMAIN trace : trace[i] = tag}

\* C17: for a command the top state's HandleCommand is asked first; the
\* session-level handling and the command table of Run come into play only
\* after it, and only when the state has reported the command as unhandled;
\* the table only after the session-level handling; at most one of the two
\* acts on the command.
C17_StateFirstThenOneFallback ==
    /\ \A i \in DOMAIN trace :
         trace[i] \in SessionActs \cup TableActs \cup {"session.handleCommand", "unhandled command"}
            => /\ \E j \in 1..(i - 1) : trace[j] = "State.HandleCommand"
               /\ At("state") = {}
    /\ \A i \in DOMAIN trace :
         trace[i] \in TableActs \cup {"unhandled command"}
            => \E j \in 1..(i - 1) : trace[j] = "session.handleCommand"
    /\ Cardinality({i \in DOMAIN trace : trace[i] \in SessionActs \cup TableActs}) <= 1
    /\ Cardinality(At("State.HandleCommand")) <= 1

\* /back@name on a stack of depth two: the state declined, the session did
\* not recognise the command with the name attached, the table of Run
\* popped the state
C17_Witness ==
    /\ ~panicked /\ pc["loop"] = "idle"
    /\ trace = <<"known user", "State.HandleCommand", "session.handleCommand", "Run.back">>
    /\ Interface(calls) = <<CallOf("Leave", StateA), CallOf("Return", rootState)>>

\* a session without the time of its last user action
Timeless(s) == [s EXCEPT !.lastUserAction = 0]

\* the step changes no session but for the time of the last user action,
\* which Handle sets for every update
StacksKept ==
    /\ DOMAIN heap' = DOMAIN heap
    /\ \A r \in DOMAIN heap : Timeless(heap'[r]) = Timeless(heap[r])

\* C18: a command that neither the top state nor the session nor the command
\* table recognises is dropped: Handle reports it as unhandled without
\* touching the stack, the bindings or a hook, the table logs it and does
\* the same, nothing panics and the loop is back in its select.
C18_UnknownCommandDropped ==
    /\ [][(pc["loop"] = "r_handle" /\ pc'["loop"] = "r_table") =>
            StacksKept /\ calls' = calls /\ ~panicked']_vars
    /\ [][(pc["loop"] = "r_table" /\ pc'["loop"] # "r_table"
             /\ local["loop"].kind = "message"
             /\ local["loop"].cmd \notin {"", CommandCancel, CommandReload,
                                          CommandHelp, CommandMain, CommandUsers}) =>
            /\ heap' = heap /\ calls' = calls /\ ~panicked'
            /\ pc'["loop"] = "idle"
            /\ Last(trace') = "unhandled command"]_vars
    /\ []((trace # <<>> /\ Last(trace) = "unhandled command" /\ At("NewSession") = {})
            => calls = <<>>)

\* /foo arrived for a session with two states and a live binding, and all
\* of it is still there
C18_Witness ==
    /\ ~panicked /\ pc["loop"] = "idle"
    /\ trace = <<"known user", "State.HandleCommand", "session.handleCommand",
                 "unhandled command">>
    /\ calls = <<>>
    /\ Len(heap) = 1 /\ stateStack(heap[1]) = <<rootState, StateA>>
    /\ Bound(heap[1]) # {}

\* C19: a callback query never makes the loop fail and always ends as
\* handled: the top state's HandleCallbackQuery is asked first, the inline
\* tracker is consulted only when the state declines, and when no live
\* binding claims the query the keyboard of its message is removed and the
\* query is answered with the expiry alert.
C19_CallbackAlwaysHandled ==
    [][(local["loop"].kind = "callback" /\ pc["loop"] \in {"r_session", "r_handle"}
          /\ (pc'["loop"] # pc["loop"] \/ panicked')) =>
         /\ ~panicked'
         /\ pc["loop"] = "r_handle" =>
              /\ pc'["loop"] = "idle" /\ Last(trace') = "handled"
              /\ \E i \in DOMAIN trace' : trace'[i] = "State.HandleCallbackQuery"
              /\ (\E i \in DOMAIN trace' : trace'[i] = "currentInlineMessages")
                    => ~\E i \in DOMAIN trace' : trace'[i] = "state"
              /\ (\E i \in DOMAIN trace' : trace'[i] = "alert")
                    <=> ~\E i \in DOMAIN trace' : trace'[i] \in {"state", "NewCallback"}
              /\ (\E i \in DOMAIN trace' : trace'[i] = "alert")
                    => \E i \in DOMAIN trace' : trace'[i] = "RemoveKeyboardForMessage"]_vars

\* C20: an update without a sender or without a chat is dropped: while the
\* loop holds it no session is created, no hook or handler runs, nothing
\* panics, and the loop returns to its select without resolving a session.
C20_MalformedDropped ==
    [][(pc["loop"] \in {"r_sender", "r_admit", "r_session"}
          /\ local["loop"].kind # "noop"
          /\ (local["loop"].from = Nil \/ local["loop"].chat = Nil)) =>
         /\ ~panicked'
         /\ heap' = heap /\ sessions' = sessions /\ calls' = calls
         /\ pc'["loop"] \in {"r_sender", "r_admit", "r_session", "idle"}]_vars

----------------------------------------------------------------------------
(* SpecWindow: the accept-window against the clock.  Handlers call         *)
(* AcceptUsers, every call starts a goroutine that waits for its duration  *)
(* or for the shutdown, and the clock advances.                            *)

MaxTime == 3        \* the clock runs from 0 to MaxTime
MaxDur == 2         \* AcceptUsers is called with durations 1..MaxDur

Durations == 1..MaxDur

InitWindow == InitCommon

\* a handler calls session.AcceptUsers(dur), which calls Bot.AcceptUsers
WindowOpen ==
    /\ ~panicked
    /\ \E dur \in Durations : AcceptUsers(TRUE, dur)
    /\ UNCHANGED <<config, botVars, sessions, heap, mSessions, pc, local, calls, lastOp,
                   returned, panicked, updates, users, now, shutdown, trace, history>>

\* time passes
Tick ==
    /\ ~panicked /\ now < MaxTime
    /\ now' = now + 1
    /\ UNCHANGED <<config, botVars, sessions, heap, mSessions, pc, local, calls, lastOp,
                   returned, panicked, updates, users, acceptNewUser, timers,
                   shutdown, trace, history>>

\* the goroutine of AcceptUsers: case <-time.After(dur): b.acceptNewUser = false
TimerFire ==
    /\ ~panicked
    /\ \E dl \in timers :
         /\ dl <= now
         /\ timers' = timers \ {dl}
         /\ acceptNewUser' = FALSE
    /\ UNCHANGED <<config, botVars, sessions, heap, mSessions, pc, local, calls, lastOp,
                   returned, panicked, updates, users, now, shutdown, trace, history>>

\* the goroutine of AcceptUsers: case <-b.shutdown:
TimerStop ==
    /\ ~panicked /\ shutdown
    /\ \E dl \in timers : timers' = timers \ {dl}
    /\ UNCHANGED <<config, botVars, sessions, heap, mSessions, pc, local, calls, lastOp,
                   returned, panicked, updates, users, acceptNewUser, now,
                   shutdown, trace, history>>

\* Bot.shutdownBot: close(b.shutdown)
shutdownBot ==
    /\ ~panicked /\ ~shutdown
    /\ shutdown' = TRUE
    /\ UNCHANGED <<config, botVars, sessions, heap, mSessions, pc, local, calls, lastOp,
                   returned, panicked, updates, users, acceptNewUser, timers,
                   now, trace, history>>

NextWindow ==
    \/ WindowOpen
    \/ Tick
    \/ TimerFire
    \/ TimerStop
    \/ shutdownBot

SpecWindow == InitWindow /\ [][NextWindow]_vars

\* C16: absent a shutdown, unknown users may register at every instant of
\* [t, t+d) after AcceptUsers(d) was called at t, whatever other calls of
\* AcceptUsers were made and whenever their timers fire.  A goroutine that
\* still waits was started at some t <= now and its deadline is t+d.
C16_WindowStaysOpen ==
    ~shutdown => \A dl \in timers : now < dl => acceptNewUser

----------------------------------------------------------------------------
(* SpecHooks: one thread drives one session, as in Spec, and the states    *)
(* it pushes include C, whose hooks look at the session and send an inline *)
(* message.  What a hook finds and what it leaves behind shows the order   *)
(* of the statements of an operation.                                      *)

HookStates == {StateA, StateC, rootState}

HookStateNamed(nm) == CHOOSE st \in HookStates : st.name = nm

InitHooks == InitCommon

\* Bot.getOrCreateSession on first contact
HookCreateSession == CallGetOrCreateSession

HookPushState ==
    /\ ~panicked /\ heap # <<>> /\ S.len < MaxDepth
    /\ \E st \in HookStates : Commit(PushState(Ctx(S), st), "PushState", st.name, 0)

HookPopState == CallPopState

HookResetToState ==
    /\ ~panicked /\ heap # <<>>
    /\ \E st \in HookStates : Commit(ResetToState(Ctx(S), st), "ResetToState", st.name, 0)

HookDropStates ==
    /\ ~panicked /\ heap # <<>>
    /\ \E n \in 0..MaxDrop : Commit(DropStates(Ctx(S), n), "DropStates", "none", n)

\* a handler of the current state sends an inline message
HookSendInlineMessage == CallSendInlineMessage

NextHooks ==
    \/ HookCreateSession
    \/ HookPushState
    \/ HookPopState
    \/ HookResetToState
    \/ HookDropStates
    \/ HookSendInlineMessage

SpecHooks == InitHooks /\ [][NextHooks]_vars

\* what the hooks of C found as the current state, in the order they ran
Seen(cs) == SelectSeq(cs, LAMBDA e : e.op = "CurrentState")

\* what a hook of state st finds when st is the current state
SeesItself(st) == IF st = StateC THEN <<CallOf("CurrentState", st)>> ELSE <<>>

\* the bindings a hook of st leaves on a session that had the bindings b
SentBy(st, b) ==
    IF st = StateC THEN [b EXCEPT ![0] = [handler |-> "h1", owner |-> "C"]] ELSE b

NoBindings == [m \in MsgIds |-> NoBinding]

\* C27: PushState(s) on a non-empty stack calls leave on the old top while
\* it is still the current state, then clears all inline bindings (those the
\* leave hook made included), then appends s, then calls enter(s) with s
\* the current state: a binding made inside enter(s) resolves afterwards,
\* and it is the only one.
C27_PushOrder ==
    [][(StepOf("PushState") /\ S.len > 0) =>
         LET old == CurrentState(S)
             st == HookStateNamed(lastOp'.st)
         IN  /\ ~panicked'
             /\ stateStack(S') = Append(stateStack(S), st)
             /\ Interface(calls') = <<CallOf("Leave", old), CallOf("Enter", st)>>
             /\ Seen(calls') = (IF old.onLeave THEN SeesItself(old) ELSE <<>>) \o SeesItself(st)
             /\ S'.currentInlineMessages = SentBy(st, NoBindings)]_vars

\* C was pushed on [R, A] while a binding was live: A was left, and the
\* only binding is the one C made when it was entered
C27_Witness ==
    /\ heap # <<>> /\ ~panicked
    /\ lastOp.op = "PushState" /\ lastOp.st = "C"
    /\ lastOp.depth = 2 /\ lastOp.bound >= 1
    /\ stateStack(S) = <<rootState, StateA, StateC>>
    /\ calls[1] = CallOf("Leave", StateA)
    /\ S.currentInlineMessages[0] = [handler |-> "h1", owner |-> "C"]

\* C28: PopState() on a stack that holds exactly one state calls leave on
\* it, clears the inline bindings, and leaves a stack of one root state
\* from the root factory, on which returnTo, and not enter, is called once.
C28_PopLastState ==
    [][(StepOf("PopState") /\ S.len = 1) =>
         LET old == CurrentState(S) IN
         /\ ~panicked'
         /\ S'.arr = <<rootState>> /\ S'.len = 1
         /\ Interface(calls') = <<CallOf("Leave", old), CallOf("Return", rootState)>>
         /\ Hooks(calls') = (IF old.onLeave THEN <<CallOf("onLeave", old)>> ELSE <<>>)
                               \o <<CallOf(ReturnHook(rootState), rootState)>>
         /\ Cleared(S')]_vars

\* the stack was [C] with a live binding: C was left, the binding is gone
\* and the root state was returned to
C28_Witness ==
    /\ heap # <<>> /\ ~panicked
    /\ lastOp.op = "PopState" /\ lastOp.depth = 1 /\ lastOp.bound >= 1
    /\ calls[1] = CallOf("Leave", StateC)
    /\ calls[Len(calls) - 1] = CallOf("Return", rootState)
    /\ stateStack(S) = <<rootState>> /\ Cleared(S)

\* C29: DropStates(n) with n >= depth removes every state and calls leave on
\* none of them; the stack is then one root state from the root factory,
\* returnTo is called on it exactly once, and the bindings are kept.
C29_DropAll ==
    [][(StepOf("DropStates") /\ lastOp'.n >= S.len) =>
         /\ ~panicked'
         /\ S'.arr = <<rootState>> /\ S'.len = 1
         /\ Interface(calls') = <<CallOf("Return", rootState)>>
         /\ Hooks(calls') = <<CallOf(ReturnHook(rootState), rootState)>>
         /\ S'.currentInlineMessages = S.currentInlineMessages]_vars

\* [R, A, C] with a binding of C and DropStates(3)
C29_Witness ==
    /\ heap # <<>> /\ ~panicked
    /\ lastOp.op = "DropStates" /\ lastOp.n = 3 /\ lastOp.depth = 3
    /\ S.arr = <<rootState>>
    /\ Interface(calls) = <<CallOf("Return", rootState)>>
    /\ S.currentInlineMessages[0].owner = "C"

RECURSIVE PopStates(_, _)
\* n successive PopState() calls
PopStates(c, n) == IF n = 0 THEN c ELSE PopStates(PopState(c), n - 1)

RECURSIVE LeaveReturn(_, _, _)
\* the calls of n pops on stack st of depth d: leave on the top, returnTo on
\* the state below it, level by level
LeaveReturn(st, d, n) ==
    IF n = 0 THEN <<>>
    ELSE <<CallOf("Leave", st[d]), CallOf("Return", st[d - 1])>>
            \o LeaveReturn(st, d - 1, n - 1)

----------------------------------------------------------------------------
(* SpecStore: the dispatch loop alone with the AppStateManager, after the  *)
(* sessions have been loaded.  Whenever the ticker fires Run stores the    *)
(* sessions, and every StoreSessionState call may fail.                    *)

\* the sessions of the chats in `live`, in the order of their chat ids
Loaded(live) ==
    [i \in 1..Cardinality(live) |->
        LET ch == CHOOSE c \in live : Cardinality({d \in live : d <= c}) = i
        IN  createSession(ch, ch).s]

\* Run is in its select; the registry holds the sessions of some chats
InitStore ==
    /\ config \in RootStates
    /\ \E live \in SUBSET ChatIds :
         /\ heap = Loaded(live)
         /\ sessions = [ch \in ChatIds |->
                           IF ch \in live THEN Cardinality({d \in live : d <= ch}) ELSE Nil]
    /\ mSessions = Free
    /\ pc = [t \in Threads |-> "idle"]
    /\ local = [t \in Threads |-> NoLocal]
    /\ returned = {}
    /\ calls = <<>>
    /\ lastOp = NoOp
    /\ panicked = FALSE
    /\ InitRunVars
    /\ InitBotVars

\* mutant: the first failing store ends the pass
afterStore_Abort(err) == IF err THEN "st_unlock" ELSE "st_iter"

\* storeSessions: if err != nil { log.Printf(...) }, and the range loop
\* goes on with the next session
afterStore(err) == "st_iter"

\* storeSessions: err := b.config.AppStateManager.StoreSessionState(...), the
\* AppStateManager keeps the outcome of the call
StoreSessionState ==
    /\ \E err \in BOOLEAN :
         /\ Goto("loop", "st_store", afterStore(err))
         /\ stored' = [stored EXCEPT !.pass[heap[local["loop"].ref].chatId] =
                                        IF err THEN "err" ELSE "ok"]
    /\ local' = [local EXCEPT !["loop"].chat = @ + 1]
    /\ UNCHANGED <<config, bot, mMessages, spawned, stop, sessions, heap, mSessions, calls, lastOp, returned, panicked, runVars>>

NextStore ==
    \/ StoreBegin
    \/ StoreLock
    \/ StoreIter
    \/ StoreSessionState
    \/ StoreUnlock

SpecStore == InitStore /\ [][NextStore]_vars

\* the loop takes a step from statement `from`
LoopLeaves(from) == pc["loop"] = from /\ pc'["loop"] # from

Registered == {ch \in ChatIds : sessions[ch] # Nil}

\* C23: a failing StoreSessionState call ends neither the pass nor the
\* engine: the pass goes on with the next session, at its end every session
\* of the registry has been handed to the AppStateManager, the loop returns
\* to its select, and the pass of the next tick hands over every session
\* again, those whose store failed in the pass before included.
C23_StoreFailureTolerated ==
    /\ [][LoopLeaves("st_store") =>
            /\ pc'["loop"] = "st_iter" /\ ~panicked'
            /\ stored'.pass[heap[local["loop"].ref].chatId] \in {"ok", "err"}
            /\ \A ch \in ChatIds :
                 stored.pass[ch] # "none" => stored'.pass[ch] # "none"]_vars
    /\ [](pc["loop"] = "st_unlock" =>
            /\ \A ch \in Registered : stored.pass[ch] \in {"ok", "err"}
            /\ \A ch \in stored.failed : stored.pass[ch] \in {"ok", "err"})
    /\ [][LoopLeaves("st_unlock") =>
            pc'["loop"] = "idle" /\ mSessions' = Free /\ ~panicked']_vars
    /\ [][LoopLeaves("st_lock") =>
            stored'.failed = {ch \in ChatIds : stored.pass[ch] = "err"}]_vars

\* the store of session 1 failed in the pass before; in this pass it
\* succeeded, the store of session 2 failed, and the pass is at its end
C23_Witness ==
    /\ ~panicked /\ pc["loop"] = "st_unlock"
    /\ stored.failed = {1}
    /\ stored.pass[1] = "ok" /\ stored.pass[2] = "err"
    /\ Registered = {1, 2}

----------------------------------------------------------------------------
(* SpecLoad: Run loads the sessions and then serves updates: the loop      *)
(* resolves the session of an update with getOrCreateSession.              *)

InitLoad == InitLock

NextLoad ==
    \/ LoadLock
    \/ LoadStates
    \/ LoadNext
    \/ LoadPut
    \/ LoadActivate
    \/ LoadUnlock
    \/ CallerBegin("loop")
    \/ RegLock("loop")
    \/ RegRead("loop")
    \/ LockAppState("loop")
    \/ LockPut("loop")
    \/ LockActivate("loop")
    \/ RegUnlock("loop")

SpecLoad == InitLoad /\ [][NextLoad]_vars

LoadStatements == {"ld_lock", "ld_load", "ld_next", "ld_put", "ld_activate", "ld_unlock"}

\* C24: loading never ends the process.  A stored record whose chat id or
\* user id is zero is skipped; every other record becomes a session of the
\* registry under its chat id, with the record's user id and a stack that
\* holds the root state.  When LoadSessionStates fails loadSessions returns
\* with the registry as it was, Run drops the error and is in its select
\* with the lock released.
C24_LoadFailureNotFatal ==
    /\ [][pc["loop"] \in LoadStatements => ~panicked']_vars
    /\ [][LoopLeaves("ld_load") =>
            /\ sessions' = sessions /\ heap' = heap
            /\ pc'["loop"] = IF lastOp'.st = "error" THEN "ld_unlock" ELSE "ld_next"]_vars
    /\ [][(pc["loop"] = "ld_next" /\ local'["loop"] # local["loop"]) =>
            LET rec == local'["loop"] IN
            /\ sessions' = sessions /\ heap' = heap
            /\ pc'["loop"] = IF rec.user = Nil \/ rec.chat = Nil
                             THEN "ld_next" ELSE "ld_put"]_vars
    /\ [][LoopLeaves("ld_put") =>
            LET rec == local["loop"] IN
            /\ sessions'[rec.chat] = Len(heap') /\ Len(heap') = Len(heap) + 1
            /\ heap'[Len(heap')].userId = rec.user
            /\ heap'[Len(heap')].chatId = rec.chat
            /\ \A ch \in ChatIds \ {rec.chat} : sessions'[ch] = sessions[ch]]_vars
    /\ [][LoopLeaves("ld_activate") =>
            /\ sessions' = sessions
            /\ stateStack(heap'[local["loop"].ref]) = <<rootState>>]_vars
    /\ [][LoopLeaves("ld_unlock") =>
            /\ pc'["loop"] = "idle" /\ mSessions' = Free
            /\ sessions' = sessions /\ heap' = heap]_vars
    /\ []((lastOp.st = "error" /\ pc["loop"] = "ld_unlock") => Registered = {})

\* the records of chat 1 and chat 2 are installed, the record that came
\* last had no chat id, and Run is in its select
C24_Witness ==
    /\ ~panicked /\ pc["loop"] = "idle" /\ mSessions = Free
    /\ lastOp.st = "ok"
    /\ Registered = {1, 2}
    /\ heap[sessions[1]].userId = 1 /\ heap[sessions[2]].userId = 2
    /\ local["loop"].op = "loadSessions"
    /\ local["loop"].user = 1 /\ local["loop"].chat = Nil

\* LoadSessionStates failed, and the loop has since resolved the session of
\* an update
LoadFailedThenServed ==
    /\ ~panicked /\ pc["loop"] = "idle" /\ mSessions = Free
    /\ lastOp.st = "error"
    /\ \E ch \in ChatIds : <<ch, sessions[ch]>> \in returned /\ sessions[ch] # Nil

----------------------------------------------------------------------------
(* SpecShutdown: Run returns and its deferred function runs: it unwinds    *)
(* every session, starts the goroutines that announce the restart and      *)
(* stores the sessions.  No other goroutine works on the sessions.  The    *)
(* session of the first chat holds any stack the operations can build,     *)
(* with or without a live binding.                                         *)

Stacks == UNION {[1..d -> HookStates] : d \in 1..MaxDepth}

\* a session whose handlers have built the stack st, and have sent an
\* inline message from its top state when b holds
SessionWith(ch, st, b) ==
    [NewSession(ch, ch) EXCEPT
        !.arr = st, !.len = Len(st),
        !.currentInlineMessages =
            [m \in MsgIds |-> IF b /\ m = 0
                              THEN [handler |-> "h1", owner |-> st[Len(st)].name]
                              ELSE NoBinding]]

InitShutdown ==
    /\ config \in RootStates
    /\ \E live \in SUBSET ChatIds, st \in Stacks, b \in BOOLEAN :
         /\ FocusChat \in live
         /\ heap = [Loaded(live) EXCEPT ![1] = SessionWith(FocusChat, st, b)]
         /\ sessions = [ch \in ChatIds |->
                           IF ch \in live THEN Cardinality({d \in live : d <= ch}) ELSE Nil]
    /\ mSessions = Free
    /\ pc = [t \in Threads |-> "idle"]
    /\ local = [t \in Threads |-> NoLocal]
    /\ returned = {}
    /\ calls = <<>>
    /\ lastOp = NoOp
    /\ panicked = FALSE
    /\ InitRunVars
    /\ InitBotVars

NextShutdown ==
    \/ RunReturn
    \/ ShutdownIter
    \/ ShutdownSession
    \/ ForeachIter
    \/ ForeachGo
    \/ StoreLock
    \/ StoreIter
    \/ StoreCall
    \/ StoreUnlock

SpecShutdown == InitShutdown /\ [][NextShutdown]_vars

\* leave on every state of the stack of s, from the top to the bottom
LeavesTopDown(s) == [i \in 1..s.len |-> CallOf("Leave", s.arr[s.len - i + 1])]

----------------------------------------------------------------------------
(* SpecDrain: SpecRace until Run returns.  The loop handles events for the *)
(* session and a handler may start a broadcast goroutine; at any select    *)
(* the loop may find its context cancelled or b.shutdown closed and        *)
(* return, and its deferred function unwinds and stores the sessions.      *)

InitDrain == InitRace

NextDrain ==
    \/ NextRace
    \/ RunReturn
    \/ ShutdownIter
    \/ ShutdownSession
    \/ ForeachIter
    \/ ForeachGo
    \/ StoreLock
    \/ StoreIter
    \/ StoreCall
    \/ StoreUnlock

SpecDrain == InitDrain /\ [][NextDrain]_vars

\* the statements of the deferred function that unwind the sessions
Unwinding == {"sd_iter", "sd_shutdown"}

\* C22: while the deferred function of Run unwinds the sessions, nothing
\* else is active on them: the loop is not inside the handling of an
\* update, and no broadcast goroutine started earlier still has statements
\* to run.
C22_ShutdownAlone ==
    pc["loop"] \in Unwinding =>
        /\ pc["loop"] \notin LoopMid
        /\ pc["bcast"] = Done

----------------------------------------------------------------------------
(* Identity of a session, under SpecRegistry.                              *)

\* C26: the user id and the chat id of a session never change.  A call of
\* getOrCreateSession for a chat that has a session returns that session
\* whoever the user of the call is: it creates no session and leaves the
\* session and the registry as they are; no chat ever has two sessions.
C26_IdentityImmutable ==
    /\ [][\A r \in DOMAIN heap :
            /\ r \in DOMAIN heap'
            /\ heap'[r].userId = heap[r].userId
            /\ heap'[r].chatId = heap[r].chatId]_vars
    /\ [][\A t \in Callers :
            (pc[t] = "g_read" /\ pc'[t] # "g_read" /\ sessions[local[t].chat] # Nil) =>
               /\ pc'[t] = "g_unlock"
               /\ local'[t].ref = sessions[local[t].chat]
               /\ heap' = heap /\ sessions' = sessions]_vars
    /\ [](\A ch \in ChatIds : Cardinality(Created(ch)) <= 1)
    /\ [](\A p \in returned : p[2] # Nil /\ heap[p[2]].chatId = p[1])

\* user 2 has sent an update in chat 1, whose session was created for
\* user 1: the loop got that session, which still belongs to user 1
C26_Witness ==
    /\ ~panicked /\ pc["loop"] = "idle"
    /\ local["loop"].user = 2 /\ local["loop"].chat = 1
    /\ local["loop"].ref = sessions[1] /\ sessions[1] # Nil
    /\ <<1, sessions[1]>> \in returned
    /\ heap[sessions[1]].userId = 1
    /\ Created(1) = {sessions[1]}

----------------------------------------------------------------------------
(* SpecStart: the application hands a Config to New and, when New returns  *)
(* a Bot, calls Run: SpecRun from then on.  The Config may lack the        *)
(* AppStateManager, the UserManager or the root state factory, and Connect *)
(* may fail.                                                               *)

\* the Configs of the inputs; New has not been called
Configs ==
    {[AppStateManager |-> a, UserManager |-> u, Connect |-> "untried", made |-> "nothing"] :
        a \in BOOLEAN, u \in BOOLEAN}

\* Config.validate
validate(cfg) ==
    IF ~cfg.AppStateManager THEN "session context manager must be provided"
    ELSE IF ~cfg.UserManager THEN "user manager must be provided"
    ELSE "nil"

\* New: validate, then config.Connect(config.Token), then the Bot
New(cfg, connects) ==
    IF validate(cfg) # "nil" THEN [cfg EXCEPT !.made = "error"]
    ELSE IF ~connects THEN [cfg EXCEPT !.Connect = "failed", !.made = "error"]
    ELSE [cfg EXCEPT !.Connect = "ok", !.made = "bot"]

\* a Config without a root state factory has config = NilState
InitStart ==
    /\ config \in RootStates \cup {NilState}
    /\ bot \in Configs
    /\ stored = NoStore
    /\ InitTasks
    /\ sessions = [c \in ChatIds |-> Nil]
    /\ heap = <<>>
    /\ mSessions = Free
    /\ pc = [t \in Threads |-> IF t = "loop" THEN "new" ELSE "idle"]
    /\ local = [t \in Threads |-> IF t = "loop" THEN NoUpd ELSE NoLocal]
    /\ returned = {}
    /\ calls = <<>>
    /\ lastOp = NoOp
    /\ panicked = FALSE
    /\ InitRunVars

\* the application calls New and, with the Bot it gets, Run
CallNew ==
    /\ pc["loop"] = "new"
    /\ \E connects \in BOOLEAN : bot' = New(bot, connects)
    /\ pc' = [pc EXCEPT !["loop"] = IF bot'.made = "bot" THEN "idle" ELSE "exit"]
    /\ UNCHANGED <<config, stored, mMessages, spawned, stop, sessions, heap, mSessions, local, calls, lastOp,
                   returned, panicked, runVars>>

\* Run serves updates
Serve == bot.made = "bot" /\ NextRun

NextStart ==
    \/ CallNew
    \/ Serve

SpecStart == InitStart /\ [][NextStart]_vars

\* New has returned an error before it called Connect
RefusedUnconnected(b) == b.made = "error" /\ b.Connect = "untried"

\* New: what it returns is decided by the collaborators and by Connect
NewAsSpecified ==
    [][(pc["loop"] = "new" /\ pc'["loop"] # "new") =>
         /\ RefusedUnconnected(bot') <=> (~bot.AppStateManager \/ ~bot.UserManager)
         /\ bot'.made \in {"bot", "error"}
         /\ bot'.made = "bot" <=> pc'["loop"] = "idle"]_vars

\* C25: New returns an error, without a Bot and without calling Connect,
\* exactly when the Config lacks the AppStateManager or the UserManager; and
\* once New has returned a Bot, nothing that Run meets while it handles
\* updates ends the process.
C25_OnlyConfigFatal ==
    /\ NewAsSpecified
    /\ [](bot.made = "bot" => ~panicked)

----------------------------------------------------------------------------
(* SpecUsers: one thread drives one session, as in Spec, and the states it *)
(* installs include UsersList, whose activate hook calls bs.Fail when the  *)
(* UserManager returns an error.  Whether ListUsers fails is drawn for     *)
(* every operation.                                                        *)

UserStates == {StateA, UsersList, rootState}

UserStateNamed(nm) == CHOOSE st \in UserStates : st.name = nm

InitUsers == InitCommon

\* Bot.getOrCreateSession on first contact
UsersCreateSession == CallGetOrCreateSession

UsersPushState ==
    /\ ~panicked /\ heap # <<>> /\ S.len < MaxDepth
    /\ \E st \in UserStates, err \in BOOLEAN :
         Commit(PushState(WithListUsers(Ctx(S), err), st), "PushState", st.name, 0)

UsersPopState ==
    /\ ~panicked /\ heap # <<>>
    /\ \E err \in BOOLEAN :
         Commit(PopState(WithListUsers(Ctx(S), err)), "PopState", "none", 0)

UsersReplaceState ==
    /\ ~panicked /\ heap # <<>>
    /\ \E st \in UserStates, err \in BOOLEAN :
         Commit(ReplaceState(WithListUsers(Ctx(S), err), st), "ReplaceState", st.name, 0)

UsersResetToState ==
    /\ ~panicked /\ heap # <<>>
    /\ \E st \in UserStates, err \in BOOLEAN :
         Commit(ResetToState(WithListUsers(Ctx(S), err), st), "ResetToState", st.name, 0)

UsersDropStates ==
    /\ ~panicked /\ heap # <<>>
    /\ \E n \in 0..MaxDrop, err \in BOOLEAN :
         Commit(DropStates(WithListUsers(Ctx(S), err), n), "DropStates", "none", n)

NextUsers ==
    \/ UsersCreateSession
    \/ UsersPushState
    \/ UsersPopState
    \/ UsersReplaceState
    \/ UsersResetToState
    \/ UsersDropStates

SpecUsers == InitUsers /\ [][NextUsers]_vars

\* the hook that enter (returnTo) runs on st calls Fail in this operation
EnterFails(st, err) == err /\ st = UsersList

ReturnFails(st, err) == err /\ st = UsersList

\* q is the sequence p or p without some of its last elements
Prefix(q, p) == Len(q) <= Len(p) /\ q = SubSeq(p, 1, Len(q))

\* C35 as stated: when the enter hook of the state A that PushState installs
\* on a stack with top P calls Fail, the stack is afterwards what it was
\* before the push, P is the current state and the lifecycle calls were
\* leave(P), enter(A), leave(A), returnTo(P); installed by ResetToState, A
\* leaves exactly one fresh root state.
C35_AsStated ==
    [][/\ (StepOf("PushState") /\ S.len > 0
             /\ EnterFails(UserStateNamed(lastOp'.st), lastOp'.listErr)) =>
            LET P == CurrentState(S)
                A == UserStateNamed(lastOp'.st)
            IN  /\ stateStack(S') = stateStack(S)
                /\ CurrentState(S') = P
                /\ Interface(calls') = <<CallOf("Leave", P), CallOf("Enter", A),
                                         CallOf("Leave", A), CallOf("Return", P)>>
       /\ (StepOf("ResetToState")
             /\ EnterFails(UserStateNamed(lastOp'.st), lastOp'.listErr)) =>
            stateStack(S') = <<rootState>>]_vars

\* C35: when the enter hook of the state A that PushState installs on a
\* stack with top P calls Fail, the lifecycle calls begin with leave(P),
\* enter(A), leave(A), returnTo(P).  If the hook that returnTo(P) runs does
\* not call Fail in turn, these are all the calls, the stack is what it was
\* before the push and P is the current state; if it does, P is popped as
\* well and what remains is a prefix of the stack before the push, or one
\* fresh root state.  Installed by ResetToState, A leaves exactly one fresh
\* root state after enter(A), leave(A), returnTo(root).
C35_FailInEnter ==
    [][/\ (StepOf("PushState") /\ S.len > 0
             /\ EnterFails(UserStateNamed(lastOp'.st), lastOp'.listErr)) =>
            LET P == CurrentState(S)
                A == UserStateNamed(lastOp'.st)
                first == <<CallOf("Leave", P), CallOf("Enter", A),
                           CallOf("Leave", A), CallOf("Return", P)>>
            IN  /\ ~panicked'
                /\ Prefix(first, Interface(calls'))
                /\ IF ReturnFails(P, lastOp'.listErr)
                   THEN /\ S'.len < S.len \/ stateStack(S') = <<rootState>>
                        /\ Prefix(stateStack(S'), stateStack(S))
                             \/ stateStack(S') = <<rootState>>
                        /\ Interface(calls')[5] = CallOf("Leave", P)
                   ELSE /\ stateStack(S') = stateStack(S)
                        /\ CurrentState(S') = P
                        /\ Interface(calls') = first
       /\ (StepOf("ResetToState")
             /\ EnterFails(UserStateNamed(lastOp'.st), lastOp'.listErr)) =>
            LET A == UserStateNamed(lastOp'.st)
            IN  /\ ~panicked'
                /\ stateStack(S') = <<rootState>>
                /\ Interface(calls') = <<CallOf("Enter", A), CallOf("Leave", A),
                                         CallOf("Return", rootState)>>]_vars

\* UsersList was pushed on [R, A] while ListUsers failed: A was left,
\* UsersList entered and left, A returned to, and the stack is [R, A] again
C35_Witness ==
    /\ heap # <<>> /\ ~panicked
    /\ lastOp.op = "PushState" /\ lastOp.st = "U" /\ lastOp.listErr
    /\ lastOp.depth = 2
    /\ stateStack(S) = <<rootState, StateA>>
    /\ Interface(calls) = <<CallOf("Leave", StateA), CallOf("Enter", UsersList),
                            CallOf("Leave", UsersList), CallOf("Return", StateA)>>

\* what PushState(s) and ReplaceState(s) make of the stack when no hook
\* touches it
Pushed(s, st) == Append(stateStack(s), st)

Replaced(s, st) == [stateStack(s) EXCEPT ![s.len] = st]

----------------------------------------------------------------------------
(* The reload command of the command table, under SpecRun.                 *)

\* the loop runs the command table on /reload
ReloadStep ==
    /\ pc["loop"] = "r_table" /\ pc'["loop"] = "idle"
    /\ local["loop"].kind = "message" /\ local["loop"].cmd = CommandReload

\* the lifecycle calls the step has added
Added == SubSeq(calls', Len(calls) + 1, Len(calls'))

\* the session of the update the loop handles
Session == heap[local["loop"].ref]

\* a hook of the step has called Fail
Failed(cs) == \E i \in DOMAIN cs : cs[i].op = "Fail"

\* C31 as stated: the reload command leaves the state stack and all inline
\* bindings unchanged, invokes enter on the current top exactly once, and
\* invokes neither leave nor returnTo.
C31_AsStated ==
    [][ReloadStep =>
         LET top == CurrentState(Session) IN
         /\ stateStack(heap'[local["loop"].ref]) = stateStack(Session)
         /\ heap'[local["loop"].ref].currentInlineMessages = Session.currentInlineMessages
         /\ Interface(Added) = <<CallOf("Enter", top)>>]_vars

\* C31: the reload command (reached only when the top state and the session
\* declined it) invokes enter on the current top first, with no leave
\* before it.  Unless that enter hook calls Fail, nothing else is invoked
\* and the state stack and the inline bindings are what they were.  If it
\* calls Fail, the top is popped: leave(top), the inline bindings cleared,
\* and returnTo on the state below or on a fresh root state.
C31_Reload ==
    [][ReloadStep =>
         LET top == CurrentState(Session)
             after == heap'[local["loop"].ref]
         IN  /\ ~panicked'
             /\ Last(trace') = "Run.reload"
             /\ "State.HandleCommand" = trace'[Len(trace') - 2]
             /\ "session.handleCommand" = trace'[Len(trace') - 1]
             /\ Added # <<>> /\ Interface(Added)[1] = CallOf("Enter", top)
             /\ IF Failed(Added)
                THEN /\ top = UsersList
                     /\ stateStack(after) =
                          (IF Session.len > 1
                           THEN SubSeq(stateStack(Session), 1, Session.len - 1)
                           ELSE <<rootState>>)
                     /\ Cleared(after)
                     /\ Interface(Added) =
                          <<CallOf("Enter", top), CallOf("Leave", top),
                            CallOf("Return", CurrentState(after))>>
                ELSE /\ stateStack(after) = stateStack(Session)
                     /\ after.currentInlineMessages = Session.currentInlineMessages
                     /\ Interface(Added) = <<CallOf("Enter", top)>>]_vars

\* /reload has reached the table with state A on top of the root state and
\* a live binding: A was entered again and the binding is still there
C31_Witness ==
    /\ ~panicked /\ pc["loop"] = "idle"
    /\ trace # <<>> /\ Last(trace) = "Run.reload"
    /\ ~Failed(calls)
    /\ \E ch \in ChatIds :
         /\ sessions[ch] # Nil
         /\ stateStack(heap[sessions[ch]]) = <<rootState, StateA>>
         /\ ~Cleared(heap[sessions[ch]])
         /\ Interface(calls) = <<CallOf("Enter", StateA)>>

----------------------------------------------------------------------------
(* Expired interactions, under SpecRun.                                    *)

\* the loop hands a callback query to session.Handle, which treats it as
\* expired: removeExpiredCallback has sent its alert
ExpiredStep ==
    /\ pc["loop"] = "r_handle" /\ local["loop"].kind = "callback"
    /\ pc'["loop"] # "r_handle"
    /\ \E i \in DOMAIN trace' : trace'[i] = "alert"

\* C36: treating an interaction as expired (no binding for its message id,
\* or the bound handler returned false) changes neither the inline tracker
\* nor the state stack of the session: every binding that was resolvable
\* before the event is resolvable with the same handler after it, and the
\* update counts as handled.
C36_ExpiredKeepsBindings ==
    [][ExpiredStep =>
         /\ ~panicked'
         /\ heap'[local["loop"].ref].currentInlineMessages = Session.currentInlineMessages
         /\ stateStack(heap'[local["loop"].ref]) = stateStack(Session)
         /\ Added = <<>>
         /\ pc'["loop"] = "idle" /\ Last(trace') = "handled"]_vars

\* a callback query found its binding, the bound handler returned false, the
\* query was treated as expired, and the binding is still there
C36_Witness ==
    /\ ~panicked /\ pc["loop"] = "idle"
    /\ \E i \in DOMAIN trace : trace[i] = "handleQuery"
    /\ \E i \in DOMAIN trace : trace[i] = "alert"
    /\ Cardinality({ch \in ChatIds : sessions[ch] # Nil}) = 1
    /\ \E ch \in ChatIds : sessions[ch] # Nil /\ ~Cleared(heap[sessions[ch]])

----------------------------------------------------------------------------
(* SpecActivity: what becomes of a session's lastUserAction.  The clock    *)
(* advances, Run handles messages, the ticker stores the sessions, and the *)
(* process is stopped and started again with what the AppStateManager has  *)
(* kept.  A pass of storeSessions or loadSessions is one step here.        *)

InitActivity == InitCommon

\* Bot.Run handles a message of a registered user in chat ch that nobody
\* claims: getOrCreateSession, then session.Handle
ActivityHandle ==
    /\ ~panicked /\ pc["loop"] = "idle"
    /\ \E ch \in ChatIds :
         LET new == missing(sessions[ch])
             ref == IF new THEN Len(heap) + 1 ELSE sessions[ch]
             c0 == IF new THEN createSession(ch, ch) ELSE Ctx(heap[ref])
             r == Handle([c |-> c0, trace |-> <<>>, handled |-> FALSE, window |-> FALSE],
                         NoPayload, "message")
         IN  /\ heap' = IF new THEN Append(heap, r.c.s) ELSE [heap EXCEPT ![ref] = r.c.s]
             /\ sessions' = [sessions EXCEPT ![ch] = ref]
             /\ calls' = r.c.calls
             /\ panicked' = r.c.panic
             /\ lastOp' = [NoOp EXCEPT !.op = "Handle", !.n = ch]
    /\ UNCHANGED <<config, botVars, mSessions, pc, local, returned, runVars>>

\* storeSessions: the record made of session s
StoredSessionState(s) ==
    [UserID |-> s.userId, ChatID |-> s.chatId, LastAction |-> timeNow]

\* Bot.Run: case <-sessionStoreTicker.C: b.storeSessions(ctx); the
\* AppStateManager keeps the records of the calls that do not fail
ActivityStore ==
    /\ ~panicked /\ pc["loop"] = "idle"
    /\ \E failing \in SUBSET ChatIds :
         stored' = [stored EXCEPT
            !.pass = [ch \in ChatIds |->
                        IF sessions[ch] = Nil THEN "none"
                        ELSE IF ch \in failing THEN "err" ELSE "ok"],
            !.failed = {ch \in ChatIds : stored.pass[ch] = "err"},
            !.LastAction = [ch \in ChatIds |->
                        IF sessions[ch] = Nil \/ ch \in failing THEN @[ch]
                        ELSE StoredSessionState(heap[sessions[ch]]).LastAction]]
    /\ lastOp' = [NoOp EXCEPT !.op = "storeSessions"]
    /\ UNCHANGED <<config, bot, mMessages, spawned, stop, sessions, heap, mSessions, pc, local, calls, returned,
                   panicked, runVars>>

\* the chats the AppStateManager has a record of
Records == {ch \in ChatIds : stored.LastAction[ch] # 0}

\* loadSessions: NewSession for the record of chat ch, and the current
\* state activated when the record's LastAction is recent
loadSession(ch) ==
    LET c1 == getOrPushCurrentState(Ctx(NewSession(ch, ch)))
    IN  IF stored.LastAction[ch] # 0 THEN Enter(c1, CurrentState(c1.s)) ELSE c1

\* the process is started again: New, Run, loadSessions
ActivityRestart ==
    /\ ~panicked /\ pc["loop"] = "idle"
    /\ heap # <<>>
    /\ \E err \in BOOLEAN :
         LET live == IF err THEN {} ELSE Records IN
         /\ heap' = [i \in 1..Cardinality(live) |->
                       loadSession(CHOOSE c \in live :
                                     Cardinality({d \in live : d <= c}) = i).s]
         /\ sessions' = [ch \in ChatIds |->
                           IF ch \in live THEN Cardinality({d \in live : d <= ch}) ELSE Nil]
         /\ lastOp' = [NoOp EXCEPT !.op = "loadSessions",
                                   !.st = IF err THEN "error" ELSE "ok"]
    /\ calls' = <<>>
    /\ stored' = [stored EXCEPT !.pass = NoStore.pass, !.failed = {}]
    /\ UNCHANGED <<config, bot, mMessages, spawned, stop, mSessions, pc, local, returned, panicked, runVars>>

NextActivity ==
    \/ Tick
    \/ ActivityHandle
    \/ ActivityStore
    \/ ActivityRestart

SpecActivity == InitActivity /\ [][NextActivity]_vars

\* the LastAction of the records of the pass that has just run is the
\* lastUserAction of their sessions
StoredAsHandled ==
    lastOp.op = "storeSessions" =>
       \A ch \in ChatIds :
          stored.pass[ch] = "ok" =>
             stored.LastAction[ch] = heap[sessions[ch]].lastUserAction

\* the sessions that loadSessions has just made carry the LastAction of
\* their records
LoadedAsStored ==
    lastOp.op = "loadSessions" =>
       \A ch \in ChatIds :
          sessions[ch] # Nil =>
             heap[sessions[ch]].lastUserAction = stored.LastAction[ch]

\* C34: the lastActivity handed to the AppStateManager for a session is the
\* session's lastUserAction, the time of the last update it handled, and a
\* session made by loadSessions carries the LastAction of its record as its
\* lastUserAction.
C34_LastActivityKept == StoredAsHandled /\ LoadedAsStored

----------------------------------------------------------------------------
(* SpecStop: Run is in its select with some sessions in the registry; the  *)
(* stream of updates is closed, ctx is cancelled or Bot.shutdown is        *)
(* closed, Run returns and its deferred function runs: Shutdown of every   *)
(* session, a goroutine per session for the farewell message, and          *)
(* storeSessions.  The goroutines run when the scheduler lets them.        *)

\* the stacks of the first session
StopStacks == {<<rootState>>, <<rootState, StateA>>}

\* the sessions of InitShutdown; those of the chats in `active` have
\* handled an update
InitStop ==
    /\ config \in RootStates
    /\ \E live \in SUBSET ChatIds, st \in StopStacks, b \in BOOLEAN, active \in SUBSET ChatIds :
         /\ FocusChat \in live /\ active \subseteq live
         /\ heap = [i \in 1..Cardinality(live) |->
                      LET s == [Loaded(live) EXCEPT ![1] = SessionWith(FocusChat, st, b)][i]
                      IN  [s EXCEPT !.lastUserAction = IF s.chatId \in active THEN 1 ELSE 0]]
         /\ sessions = [ch \in ChatIds |->
                           IF ch \in live THEN Cardinality({d \in live : d <= ch}) ELSE Nil]
    /\ mSessions = Free
    /\ pc = [t \in Threads |-> "idle"]
    /\ local = [t \in Threads |-> NoLocal]
    /\ returned = {}
    /\ calls = <<>>
    /\ lastOp = NoOp
    /\ panicked = FALSE
    /\ InitRunVars
    /\ InitBotVars

\* the transport closes the channel of updates, or the caller of Run
\* cancels ctx
StopRequest ==
    /\ ~panicked /\ stop = "none"
    /\ \E why \in {"closed", "cancelled"} : stop' = why
    /\ UNCHANGED <<config, bot, stored, mMessages, spawned, sessions, heap, mSessions, pc,
                   local, calls, lastOp, returned, panicked, runVars>>

\* Bot.Run: if !ok { return nil }, case <-ctx.Done(), case <-b.shutdown
StopReturn ==
    /\ stop # "none" \/ shutdown
    /\ RunReturn

\* the goroutine ForeachSessionAsync started for the session of chat ch, in
\* the deferred function of Run: if session.LastUserAction().IsZero()
\* { return }; session.SendMessage(...)
Farewell(ch) ==
    /\ ~panicked /\ spawned[ch] = "started"
    /\ spawned' = [spawned EXCEPT ![ch] =
                      IF heap[sessions[ch]].lastUserAction = 0 THEN "skipped" ELSE "sent"]
    /\ UNCHANGED <<config, bot, stored, mMessages, stop, sessions, heap, mSessions, pc,
                   local, calls, lastOp, returned, panicked, runVars>>

NextStop ==
    \/ StopRequest
    \/ shutdownBot
    \/ StopReturn
    \/ ShutdownIter
    \/ ShutdownSession
    \/ ForeachIter
    \/ ForeachGo
    \/ StoreLock
    \/ StoreIter
    \/ StoreSessionState
    \/ StoreUnlock
    \/ \E ch \in ChatIds : Farewell(ch)

\* the goroutine of Run is scheduled as long as it can take a step, and so
\* are the goroutines it has started
SpecStop ==
    /\ InitStop /\ [][NextStop]_vars
    /\ WF_vars(StopReturn \/ ShutdownIter \/ ShutdownSession \/ ForeachIter \/ ForeachGo
                  \/ StoreLock \/ StoreIter \/ StoreSessionState \/ StoreUnlock)
    /\ \A ch \in ChatIds : WF_vars(Farewell(ch))

\* Run has to return
StopRequested == stop # "none" \/ shutdown

\* Run has returned
Stopped == pc["loop"] = "stopped"

\* Run returns once it has to
StopsWhenAsked == StopRequested ~> Stopped

\* when Run has returned, every session is unwound and a store was attempted
\* for it
UnwoundAndStored ==
    Stopped => \A ch \in Registered :
                  /\ Cleared(heap[sessions[ch]])
                  /\ stored.pass[ch] \in {"ok", "err"}

\* when Run has returned, the farewell send was attempted for every session
\* with recorded user activity
FarewellAttempted ==
    Stopped => \A ch \in Registered :
                  heap[sessions[ch]].lastUserAction # 0 => spawned[ch] = "sent"

\* the deferred function runs once: after it Run takes no step
ShutdownOnce == [][Stopped => pc'["loop"] = "stopped"]_vars

\* C33: once the stream of updates is closed, ctx is cancelled or
\* Bot.shutdown is closed, Run eventually returns, and when it returns it
\* has run the shutdown sequence exactly once: every session unwound, a
\* farewell send attempted for every session with recorded user activity,
\* and a store attempted for every session.
C33_StopsAfterShutdown ==
    /\ StopsWhenAsked
    /\ ShutdownOnce
    /\ [](UnwoundAndStored /\ FarewellAttempted)

----------------------------------------------------------------------------
(* SpecWindowFair: the accept-window under a fair scheduler.  The clock    *)
(* keeps running, and a goroutine of AcceptUsers whose select has a ready  *)
(* case takes it.  Calls of AcceptUsers are made while their deadline lies *)
(* within the range of the clock, so that every deadline is reached.       *)

\* a handler calls session.AcceptUsers(dur) early enough for the clock
WindowOpenInTime ==
    /\ ~panicked
    /\ \E dur \in Durations : now + dur <= MaxTime /\ AcceptUsers(TRUE, dur)
    /\ UNCHANGED <<config, botVars, sessions, heap, mSessions, pc, local, calls, lastOp,
                   returned, panicked, updates, users, now, shutdown, trace, history>>

NextWindowFair ==
    \/ WindowOpenInTime
    \/ Tick
    \/ TimerFire
    \/ TimerStop
    \/ shutdownBot

SpecWindowFair ==
    /\ InitWindow /\ [][NextWindowFair]_vars
    /\ WF_vars(Tick) /\ WF_vars(TimerFire) /\ WF_vars(TimerStop)

\* absent a shutdown, the flag is false from some moment on: the goroutine
\* of the last call of AcceptUsers closes the window
WindowEnds == <>shutdown \/ <>[](~acceptNewUser)

\* no goroutine of AcceptUsers waits forever
TasksTerminate == <>[](timers = {})

\* C32: every accept-window eventually ends when no further call of
\* AcceptUsers is made and the bot is not shut down, and every goroutine
\* started by AcceptUsers terminates, by its timer or by the shutdown.
C32_WindowEventuallyEnds == WindowEnds /\ TasksTerminate

\* the window is open, no shutdown was asked for, and the timers of the
\* goroutines that wait are due
C32_Witness ==
    /\ ~shutdown /\ acceptNewUser /\ timers # {}
    /\ \A dl \in timers : dl <= now

----------------------------------------------------------------------------
(* SpecMock: the dispatch loop fed by MockBot.  A test goroutine calls     *)
(* MockBot.Send, which sends the update and then a no-op update on the     *)
(* channel of the mock transport, made by make(chan tgbotapi.Update); the  *)
(* loop receives from that channel in its select and routes the update as  *)
(* in SpecRun.  The updates carry a serial number next to their UpdateID,  *)
(* which is 0 for the update and -1 for the no-op.                         *)

\* mutant: the channel has room for one update
canSend_Buffered(q, receiving) == Len(q) < 1

\* updates <- upd on the channel of NewMockBot, which has no buffer: the
\* send completes when the loop is at its receive and takes the update
canSend(q, receiving) == q = <<>> /\ receiving

\* the test goroutine in Send(userId, text): the update and its serial
Sending(u, id) ==
    [op |-> "Send", st |-> NilState, cur |-> NilState, msg |-> FALSE,
     chat |-> u, user |-> u, ref |-> id]

\* tgbotapi.Update{Message: {From: {ID: userId}, Chat: {ID: userId}, Text: text}}
RealUpdate(u, id) == [id |-> id, UpdateID |-> 0, from |-> u, chat |-> u]

\* tgbotapi.Update{UpdateID: -1}
NoopUpdate(id) == [id |-> id, UpdateID |-> 0 - 1, from |-> Nil, chat |-> Nil]

InitMock == InitRun

\* the test calls mb.Send(userId, text)
MockSend ==
    /\ ~panicked /\ pc["mock"] \in {"idle", "sent"}
    /\ Delivered + 2 <= MaxUpdates
    /\ \E u \in ChatIds :
         local' = [local EXCEPT !["mock"] = Sending(u, Delivered + 1)]
    /\ pc' = [pc EXCEPT !["mock"] = "send_real"]
    /\ UNCHANGED <<config, botVars, sessions, heap, mSessions, calls, lastOp, returned,
                   panicked, runVars>>

\* mb.api.updates <- tgbotapi.Update{Message: ...}
MockSendReal ==
    /\ ~panicked /\ pc["mock"] = "send_real"
    /\ canSend(updates, pc["loop"] = "idle")
    /\ updates' = Append(updates, RealUpdate(local["mock"].user, local["mock"].ref))
    /\ pc' = [pc EXCEPT !["mock"] = "send_noop"]
    /\ UNCHANGED <<config, botVars, sessions, heap, mSessions, local, calls, lastOp,
                   returned, panicked, users, acceptNewUser, timers, now, shutdown,
                   trace, history>>

\* mb.api.updates <- tgbotapi.Update{UpdateID: -1}, and Send returns
MockSendNoop ==
    /\ ~panicked /\ pc["mock"] = "send_noop"
    /\ canSend(updates, pc["loop"] = "idle")
    /\ updates' = Append(updates, NoopUpdate(local["mock"].ref + 1))
    /\ pc' = [pc EXCEPT !["mock"] = "sent"]
    /\ UNCHANGED <<config, botVars, sessions, heap, mSessions, local, calls, lastOp,
                   returned, panicked, users, acceptNewUser, timers, now, shutdown,
                   trace, history>>

\* case upd, ok := <-updates: the loop takes what the mock has sent
MockReceive ==
    /\ ~panicked /\ pc["loop"] = "idle" /\ updates # <<>>
    /\ LET upd == Head(updates) IN
         /\ updates' = Tail(updates)
         /\ history' = Append(history, <<"begin", upd.id>>)
         /\ local' = [local EXCEPT !["loop"] =
                         [NoUpd EXCEPT !.id = upd.id,
                                       !.kind = IF upd.UpdateID < 0 THEN "noop"
                                                ELSE "message",
                                       !.from = upd.from, !.chat = upd.chat]]
    /\ pc' = [pc EXCEPT !["loop"] = "r_sender"]
    /\ trace' = <<>>
    /\ calls' = <<>>
    /\ UNCHANGED <<config, botVars, sessions, heap, mSessions, lastOp, returned, panicked,
                   users, acceptNewUser, timers, now, shutdown>>

NextMock ==
    \/ MockSend
    \/ MockSendReal
    \/ MockSendNoop
    \/ MockReceive
    \/ RunSender
    \/ RunAdmit
    \/ RunSession
    \/ RunHandle
    \/ RunTable
    \/ WindowTimeout

SpecMock == InitMock /\ [][NextMock]_vars

\* the loop has finished the handling of update id
Finished(id) == \E i \in DOMAIN history : history[i] = <<"end", id>>

\* C39: when MockBot.Send has returned, the loop has finished the handling
\* of the update Send sent: the no-op that follows it on the channel is
\* taken only when the loop is back at its receive.
C39_SendReturnsAfterHandling ==
    pc["mock"] = "sent" => Finished(local["mock"].ref)

\* Send has returned and its update went through session.Handle
C39_Witness ==
    /\ pc["mock"] = "sent" /\ Finished(local["mock"].ref)
    /\ sessions[local["mock"].chat] # Nil
    /\ heap[sessions[local["mock"].chat]].lastUserAction # 0

----------------------------------------------------------------------------
(* SpecMutex: the two locks.  Every task is followed through the lock      *)
(* statements it executes: Bot.mSessions in getOrCreateSession,            *)
(* storeSessions and loadSessions, session.mMessages in SendInlineMessage, *)
(* Handle and removeCurrentInlineMessages.  The dispatch loop loads the    *)
(* sessions, handles updates, stores on the ticker and runs the deferred   *)
(* function of Run; a goroutine of ForeachSessionAsync works on a session; *)
(* the test goroutine calls MockBot.CreateSession.  What a hook or handler *)
(* of the application does is drawn from the calls the Session interface   *)
(* offers.  The goroutines of AcceptUsers execute no lock statement.       *)

\* a statement of a task: what it does, the chat whose session it is about,
\* and the statements that follow it when it finds no session
Stmt3(do, ch, then) == [do |-> do, ch |-> ch, then |-> then]

LockS == Stmt3("mSessions.Lock", Nil, <<>>)

UnlockS == Stmt3("mSessions.Unlock", Nil, <<>>)

LockM(ch) == Stmt3("mMessages.Lock", ch, <<>>)

UnlockM(ch) == Stmt3("mMessages.Unlock", ch, <<>>)

\* session.SendInlineMessage: bs.mMessages.Lock(); defer bs.mMessages.Unlock();
\* the map write
LocksSendInlineMessage(ch) == <<LockM(ch), UnlockM(ch)>>

\* mutant: RemoveKeyboard takes the lock of the session again
LocksRemoveCurrentInlineMessages_Relock(ch) ==
    <<LockM(ch), LockM(ch), UnlockM(ch), UnlockM(ch)>>

\* session.removeCurrentInlineMessages: the lock is held while RemoveKeyboard
\* of every message calls the transport
LocksRemoveCurrentInlineMessages(ch) == <<LockM(ch), UnlockM(ch)>>

\* what a hook or handler of the application does with the session: nothing
\* that locks, SendInlineMessage, or a stack operation, which clears the
\* bindings
HookKinds == {"none", "send", "stack"}

HookLocks(k, ch) ==
    CASE k = "send" -> LocksSendInlineMessage(ch)
      [] k = "stack" -> LocksRemoveCurrentInlineMessages(ch)
      [] OTHER -> <<>>

\* Bot.getOrCreateSession: the lock is held from the first statement to the
\* return, the Activate hook of the root state included
LocksGetOrCreateSession(ch, k) ==
    <<LockS, Stmt3("getOrCreate", ch, HookLocks(k, ch)), UnlockS>>

\* session.Handle: the handler of the state; for a callback query the state
\* did not handle, the lookup of the binding under the lock, which panics
\* when the query carries no message, and the handler of the binding
LocksHandle(ch, kind, k) ==
    CASE kind = "message" -> HookLocks(k, ch)
      [] kind = "callback" ->
           <<LockM(ch), UnlockM(ch)>> \o HookLocks(k, ch)
      [] kind = "callback without message" ->
           <<LockM(ch), Stmt3("panic", ch, <<>>)>>
      [] OTHER -> <<>>

UpdateKinds == {"message", "callback", "callback without message"}

\* Bot.storeSessions
LocksStoreSessions == <<LockS, UnlockS>>

\* Bot.loadSessions: for every record a session is made and put into the
\* map, and the Activate hook of its state may run, all under the lock
RECURSIVE LoadRecords(_, _, _)
LoadRecords(ch, recs, k) ==
    IF ch > NumChats THEN <<>>
    ELSE (IF ch \in recs
          THEN <<Stmt3("put", ch, <<>>)>> \o HookLocks(k, ch) ELSE <<>>)
         \o LoadRecords(ch + 1, recs, k)

LocksLoadSessions(recs, k) == <<LockS>> \o LoadRecords(1, recs, k) \o <<UnlockS>>

\* session.Shutdown: the Leave hooks, then removeCurrentInlineMessages
LocksShutdown(ch, k) == HookLocks(k, ch) \o LocksRemoveCurrentInlineMessages(ch)

\* the deferred function of Run: Shutdown of every session, then
\* storeSessions
RECURSIVE UnwindSessions(_, _, _)
UnwindSessions(ch, regs, k) ==
    IF ch > NumChats THEN <<>>
    ELSE (IF ch \in regs THEN LocksShutdown(ch, k) ELSE <<>>)
         \o UnwindSessions(ch + 1, regs, k)

LocksDeferred(regs, k) == UnwindSessions(1, regs, k) \o LocksStoreSessions

\* what a thread is doing: the task and the statements it has still to
\* execute
Task(op, todo) == [op |-> op, todo |-> todo]

Busy(t) == pc[t] = "busy"

NextStmt(t) == Head(local[t].todo)

\* the hooks of the root state are drawn with the tasks that run them
InitMutex ==
    /\ config \in {r \in RootStates : ~r.onReturn}
    /\ sessions = [c \in ChatIds |-> Nil]
    /\ heap = <<>>
    /\ mSessions = Free
    /\ pc = [t \in Threads |-> IF t = "loop" THEN "start" ELSE "idle"]
    /\ local = [t \in Threads |-> Task("none", <<>>)]
    /\ returned = {}
    /\ calls = <<>>
    /\ lastOp = NoOp
    /\ panicked = FALSE
    /\ InitRunVars
    /\ InitBotVars

\* thread t starts a task
Begin(t, from, task) ==
    /\ ~panicked /\ pc[t] = from
    /\ pc' = [pc EXCEPT ![t] = IF task.todo = <<>> THEN "idle" ELSE "busy"]
    /\ local' = [local EXCEPT ![t] = task]
    /\ UNCHANGED <<config, botVars, sessions, heap, mSessions, calls, lastOp, returned,
                   panicked, runVars>>

\* Bot.Run: b.loadSessions(ctx)
MutexLoad ==
    \E recs \in SUBSET ChatIds, k \in HookKinds :
       Begin("loop", "start", Task("loadSessions", LocksLoadSessions(recs, k)))

\* Bot.Run: an update of chat ch: getOrCreateSession, then session.Handle
MutexUpdate ==
    \E ch \in ChatIds, kind \in UpdateKinds, k \in HookKinds :
       Begin("loop", "idle",
             Task("update", LocksGetOrCreateSession(ch, "none")
                            \o LocksHandle(ch, kind, k)))

\* Bot.Run: an update of a chat without session whose root state acts in
\* its Activate hook
MutexFirstUpdate ==
    \E ch \in ChatIds, k \in HookKinds :
       /\ sessions[ch] = Nil
       /\ Begin("loop", "idle", Task("update", LocksGetOrCreateSession(ch, k)))

\* Bot.Run: case <-sessionStoreTicker.C: b.storeSessions(ctx)
MutexTicker == Begin("loop", "idle", Task("ticker", LocksStoreSessions))

\* Bot.Run returns and its deferred function runs
MutexReturn ==
    \E k \in HookKinds :
       Begin("loop", "idle", Task("deferred", LocksDeferred(Registered, k)))

\* ForeachSessionAsync: go func() { do(session) }() for a session of the map
MutexBroadcast ==
    \E ch \in Registered, k \in HookKinds \ {"none"} :
       Begin("bcast", "idle", Task("do", HookLocks(k, ch)))

\* MockBot.CreateSession
MutexCreateSession ==
    \E ch \in ChatIds, k \in HookKinds :
       Begin("mock", "idle", Task("CreateSession", LocksGetOrCreateSession(ch, k)))

\* thread t has executed its statement and goes on with todo
Continue(t, todo) ==
    /\ local' = [local EXCEPT ![t].todo = todo]
    /\ pc' = [pc EXCEPT ![t] =
                 IF todo # <<>> THEN "busy"
                 ELSE IF local[t].op = "deferred" THEN "stopped" ELSE "idle"]

\* thread t executes its next statement
Step(t) ==
    /\ ~panicked /\ Busy(t)
    /\ LET s == NextStmt(t)
           rest == Tail(local[t].todo)
       IN  CASE s.do = "mSessions.Lock" ->
                  /\ mSessions = Free
                  /\ mSessions' = t
                  /\ Continue(t, rest)
                  /\ UNCHANGED <<sessions, heap, mMessages, panicked>>
             [] s.do = "mSessions.Unlock" ->
                  /\ mSessions' = Free
                  /\ Continue(t, rest)
                  /\ UNCHANGED <<sessions, heap, mMessages, panicked>>
             [] s.do = "mMessages.Lock" ->
                  /\ mMessages[s.ch] = Free
                  /\ mMessages' = [mMessages EXCEPT ![s.ch] = t]
                  /\ Continue(t, rest)
                  /\ UNCHANGED <<sessions, heap, mSessions, panicked>>
             [] s.do = "mMessages.Unlock" ->
                  /\ mMessages' = [mMessages EXCEPT ![s.ch] = Free]
                  /\ Continue(t, rest)
                  /\ UNCHANGED <<sessions, heap, mSessions, panicked>>
             [] s.do = "getOrCreate" ->
                  IF missing(sessions[s.ch])
                  THEN /\ heap' = Append(heap, getOrPushCurrentState(
                                                   Ctx(NewSession(s.ch, s.ch))).s)
                       /\ sessions' = [sessions EXCEPT ![s.ch] = Len(heap) + 1]
                       /\ Continue(t, s.then \o rest)
                       /\ UNCHANGED <<mSessions, mMessages, panicked>>
                  ELSE /\ Continue(t, rest)
                       /\ UNCHANGED <<sessions, heap, mSessions, mMessages, panicked>>
             [] s.do = "put" ->
                  /\ heap' = Append(heap, getOrPushCurrentState(
                                              Ctx(NewSession(s.ch, s.ch))).s)
                  /\ sessions' = [sessions EXCEPT ![s.ch] = Len(heap) + 1]
                  /\ Continue(t, rest)
                  /\ UNCHANGED <<mSessions, mMessages, panicked>>
             [] s.do = "panic" ->
                  /\ panicked' = TRUE
                  /\ UNCHANGED <<sessions, heap, mSessions, mMessages, pc, local>>
    /\ UNCHANGED <<config, bot, stored, spawned, stop, calls, lastOp, returned, runVars>>

NextMutex ==
    \/ MutexLoad
    \/ MutexUpdate
    \/ MutexFirstUpdate
    \/ MutexTicker
    \/ MutexReturn
    \/ MutexBroadcast
    \/ MutexCreateSession
    \/ \E t \in Threads : Step(t)

\* a goroutine that can run does run, and sync.Mutex hands a lock that is
\* released again and again to the goroutine that waits for it
SpecMutex ==
    /\ InitMutex /\ [][NextMutex]_vars
    /\ \A t \in Threads : SF_vars(Step(t))

\* the locks thread t holds
HoldsS(t) == mSessions = t

HoldsM(t) == {ch \in ChatIds : mMessages[ch] = t}

\* thread t is at a Lock statement
AtLockS(t) == ~panicked /\ Busy(t) /\ NextStmt(t).do = "mSessions.Lock"

AtLockM(t) == ~panicked /\ Busy(t) /\ NextStmt(t).do = "mMessages.Lock"

\* no thread asks for a lock it holds
NoRelock ==
    \A t \in Threads :
       /\ AtLockS(t) => ~HoldsS(t)
       /\ AtLockM(t) => NextStmt(t).ch \notin HoldsM(t)

\* the registry lock is never asked for by a thread that holds the lock of
\* a session: the order is mSessions before mMessages
LockOrder == \A t \in Threads : AtLockS(t) => HoldsM(t) = {}

\* thread t is at a Lock statement for a lock that thread u holds
WaitsFor(t, u) ==
    \/ AtLockS(t) /\ mSessions = u
    \/ AtLockM(t) /\ mMessages[NextStmt(t).ch] = u

\* from t a chain of at most n + 1 waiting threads leads to u
RECURSIVE Reaches(_, _, _)
Reaches(t, u, n) ==
    \/ WaitsFor(t, u)
    \/ n > 0 /\ \E v \in Threads : WaitsFor(t, v) /\ Reaches(v, u, n - 1)

\* no threads wait for each other in a circle
NoWaitCycle == \A t \in Threads : ~Reaches(t, t, Cardinality(Threads))

\* a thread at a Lock statement gets past it
NoWaitForever ==
    \A t \in Threads :
       /\ AtLockS(t) ~> ~AtLockS(t)
       /\ AtLockM(t) ~> ~AtLockM(t)

\* C38: no task waits forever for the registry lock or for the lock of a
\* session's inline messages: no thread asks for a lock it holds, the two
\* locks are never taken in opposite orders, and every thread at a Lock
\* statement gets the lock.
C38_NoDeadlock == [](NoRelock /\ LockOrder /\ NoWaitCycle) /\ NoWaitForever

\* the loop holds the registry lock and waits for the lock of a session
\* that a goroutine of ForeachSessionAsync holds
C38_Witness ==
    /\ HoldsS("loop") /\ AtLockM("loop")
    /\ mMessages[NextStmt("loop").ch] = "bcast"

====
